---- MODULE Spec2Model ----
(***************************************************************************)
(* The forecasting pipeline of Stock/utils/model.py (train_and_predict and *)
(* _build_features) with the indicators of Stock/utils/analysis.py.        *)
(*                                                                         *)
(* Numbers.  Prices and volumes are integers (prices in cents).  A real    *)
(* number computed by the code is carried in fixed point, truncated        *)
(* toward minus infinity: means, standard deviations and lags in cents,    *)
(* ratios (RSI, volume ratio, Bollinger position, min-max scaled values)   *)
(* in units of 1/Scale, the momentum, whose values are a few hundredths,   *)
(* in units of 1/Fine, the exponential averages of MACD in units of        *)
(* 1/Scale cent.  The price 1.0 is Dollar cents.  A pandas/numpy value is  *)
(* a sequence: <<v>> is the number v and << >> is NaN.  Sequences are      *)
(* 1-based: the row at pandas position p is element p + 1.                 *)
(*                                                                         *)
(* A number the fixed point cannot give is carried by name, as a record    *)
(* [op, v, of]: a regressor's answer, a scaled value of a column whose     *)
(* range is under the resolution, and what the rollout computes of them.   *)
(* What a regressor or a float rounding answers is chosen once and         *)
(* remembered in oracle, so that the same question has the same answer;    *)
(* the forest, which sums its trees in the order its threads finish, can   *)
(* answer the same question otherwise in every predict call.               *)
(*                                                                         *)
(* The Streamlit script of Stock/app.py, with the cached loaders of        *)
(* Stock/utils/data.py, is the second half of the module.                  *)
(***************************************************************************)
EXTENDS Integers, Sequences, FiniteSets, TLC

Scale == 1000
Fine == Scale * Scale
Dollar == 100

NaN == << >>
Num(v) == << v >>
IsNaN(x) == x = << >>
Val(x) == x[1]

Min2(a, b) == IF a <= b THEN a ELSE b
Max2(a, b) == IF a >= b THEN a ELSE b

RECURSIVE SumRange(_, _, _)
SumRange(s, a, b) == IF a > b THEN 0 ELSE s[a] + SumRange(s, a + 1, b)

\* sum over a..b of (s[k] - ref)^2
RECURSIVE SumSqDev(_, _, _, _)
SumSqDev(s, a, b, ref) ==
    IF a > b THEN 0 ELSE (s[a] - ref) * (s[a] - ref) + SumSqDev(s, a + 1, b, ref)

RECURSIVE IsqrtBetween(_, _, _)
IsqrtBetween(n, lo, hi) ==
    IF lo >= hi THEN lo
    ELSE LET mid == (lo + hi + 1) \div 2
         IN  IF mid * mid <= n THEN IsqrtBetween(n, mid, hi)
             ELSE IsqrtBetween(n, lo, mid - 1)

\* floor of the square root
Isqrt(n) == IsqrtBetween(n, 0, Min2(n, 46000))

\* w * (sum of squared deviations from the window mean), computed from
\* deviations from the window's first element (the same number, kept small)
WindowSS(s, a, b) ==
    LET w  == b - a + 1
        sd == SumRange(s, a, b) - w * s[a]
    IN  w * SumSqDev(s, a, b, s[a]) - sd * sd

(***************************************************************************)
(* Calendar.  A date is a day ordinal; day 0 is Monday 2024-01-01.         *)
(***************************************************************************)
dayofweek(d) == d % 7

MonthLen(k) ==
    LET m == (k % 12) + 1
        y == 2024 + (k \div 12)
    IN  IF m = 2 THEN (IF y % 4 = 0 THEN 29 ELSE 28)
        ELSE IF m \in {4, 6, 9, 11} THEN 30 ELSE 31

RECURSIVE MonthFrom(_, _)
MonthFrom(d, k) == IF d < MonthLen(k) THEN (k % 12) + 1 ELSE MonthFrom(d - MonthLen(k), k + 1)

month(d) == MonthFrom(d, 0)

\* no roll: the start itself, weekend or not
RollForward_none(d) == d

\* the first business day on or after d
RollForward(d) == IF dayofweek(d) = 5 THEN d + 2 ELSE IF dayofweek(d) = 6 THEN d + 1 ELSE d

\* pd.bdate_range(start, periods): periods consecutive business days from start
RECURSIVE bdate_range(_, _)
bdate_range(start, periods) ==
    IF periods <= 0 THEN << >>
    ELSE LET first == RollForward(start)
         IN  << first >> \o bdate_range(first + 1, periods - 1)

(***************************************************************************)
(* pandas series operations, one element at a time (i is 1-based).         *)
(***************************************************************************)
\* shift with the offset dropped: the value of the row itself
shift_unshifted(s, k, i) == IF i - k < 1 THEN NaN ELSE Num(s[i])

\* s.shift(k) at i
shift(s, k, i) == IF i - k < 1 THEN NaN ELSE Num(s[i - k])

\* s.rolling(w).mean() at i
rolling_mean(s, w, i) ==
    IF i < w \/ i < 1 THEN NaN ELSE Num(SumRange(s, i - w + 1, i) \div w)

\* s.rolling(w).std() at i: the sample standard deviation (ddof = 1)
rolling_std(s, w, i) ==
    IF i < w \/ i < 1 THEN NaN
    ELSE Num(Isqrt(WindowSS(s, i - w + 1, i) \div (w * (w - 1))))

\* new / old - 1 in units of 1/Fine: the floor of Fine * (new - old) / old,
\* divided in two steps to keep the products small
Momentum(new, old) ==
    LET q == (Scale * (new - old)) \div old
        r == (Scale * (new - old)) % old
    IN  Scale * q + (Scale * r) \div old

\* the momentum with its undefined head filled with 0
pct_over_filled(s, k, i) ==
    IF i - k < 1 THEN Num(0) ELSE Num(Momentum(s[i], s[i - k]))

\* (s / s.shift(k) - 1) at i
pct_over(s, k, i) ==
    IF i - k < 1 THEN NaN ELSE Num(Momentum(s[i], s[i - k]))

(***************************************************************************)
(* analysis.py                                                             *)
(***************************************************************************)
\* sum over a..b of delta.clip(lower=0), delta[k] = s[k] - s[k-1]
RECURSIVE GainSum(_, _, _)
GainSum(s, a, b) ==
    IF a > b THEN 0 ELSE Max2(s[a] - s[a - 1], 0) + GainSum(s, a + 1, b)

\* sum over a..b of -delta.clip(upper=0)
RECURSIVE LossSum(_, _, _)
LossSum(s, a, b) ==
    IF a > b THEN 0 ELSE Max2(s[a - 1] - s[a], 0) + LossSum(s, a + 1, b)

\* the RSI without loss.replace(0, np.nan): gain / 0 is inf and the RSI 100,
\* unless the gain is zero too
compute_rsi_noreplace(close, period, i) ==
    IF i < period + 1 THEN NaN
    ELSE LET gain == GainSum(close, i - period + 1, i)
             loss == LossSum(close, i - period + 1, i)
         IN  IF loss = 0 THEN (IF gain = 0 THEN NaN ELSE Num(100 * Scale))
             ELSE LET rs == (Scale * gain) \div loss
                  IN  Num(100 * Scale - (100 * Scale * Scale) \div (Scale + rs))

\* compute_rsi(close, period) at i.  delta is NaN at the first row, so the
\* rolling means exist from row period + 1 on; loss.replace(0, np.nan) makes
\* rs, and with it the RSI, NaN when the window holds no falling delta.
compute_rsi(close, period, i) ==
    IF i < period + 1 THEN NaN
    ELSE LET gain == GainSum(close, i - period + 1, i)
             loss == LossSum(close, i - period + 1, i)
         IN  IF loss = 0 THEN NaN
             ELSE LET rs == (Scale * gain) \div loss
                  IN  Num(100 * Scale - (100 * Scale * Scale) \div (Scale + rs))

\* one step of s.ewm(span, adjust=False).mean(): y = (1 - a) * prev + a * x, a = 2 / (span + 1)
EwmStep(prev, x, span) == ((span - 1) * prev + 2 * x) \div (span + 1)

\* s.ewm(span, adjust=False).mean() continued by k more rows from the rows in
\* acc (never empty).  The recursion halves k, and the test on half makes TLC
\* evaluate the first half before it starts the second, so the evaluation
\* stays shallow for long tables.
RECURSIVE EwmExtend(_, _, _, _)
EwmExtend(s, span, acc, k) ==
    IF k <= 0 THEN acc
    ELSE IF k = 1 THEN Append(acc, EwmStep(acc[Len(acc)], s[Len(acc) + 1], span))
    ELSE LET half == EwmExtend(s, span, acc, k \div 2)
         IN  IF Len(half) > 0 THEN EwmExtend(s, span, half, k - k \div 2) ELSE half

\* s.ewm(span, adjust=False).mean(): the first average is the first value
ewm_mean(s, span) == IF Len(s) = 0 THEN << >> ELSE EwmExtend(s, span, << s[1] >>, Len(s) - 1)

\* compute_macd(close): the MACD line, its signal average and the histogram
compute_macd(close) ==
    LET c         == [i \in 1..Len(close) |-> Scale * close[i]]
        ema_fast  == ewm_mean(c, 12)
        ema_slow  == ewm_mean(c, 26)
        macd_line == [i \in 1..Len(close) |-> ema_fast[i] - ema_slow[i]]
        signal    == ewm_mean(macd_line, 9)
    IN  [macd      |-> macd_line,
         signal    |-> signal,
         histogram |-> [i \in 1..Len(close) |-> macd_line[i] - signal[i]]]

(***************************************************************************)
(* The price table.  df.index holds the trading dates, df.close the closes *)
(* and df.volume the volumes when the table has a Volume column.           *)
(***************************************************************************)
MinLen == 19
MaxLen == 34
LongLen == 50
ScenarioLen == 300
MaxPredDays == 3
ScenarioDays == 5

\* the k-th business day (k >= 0) counted from Monday, day 0
BDay(k) == 7 * (k \div 5) + (k % 5)

Kinds == {"zigzag", "rally_mid", "rally_end", "flat", "linear"}

\* close at pandas position t (t >= 0), in cents
CloseAt(kind, t) ==
    CASE kind = "flat"      -> 5000
      [] kind = "linear"    -> 10000 + 50 * t
      [] kind = "zigzag"    -> 5000 + 10 * t + 100 * (t % 2)
      [] kind = "rally_mid" -> IF t < 8 THEN 5000 + 100 * (t % 2)
                               ELSE IF t < 24 THEN 5000 + 50 * (t - 7)
                               ELSE 5850 + 10 * (t - 24) - 100 * (t % 2)
      [] kind = "rally_end" -> IF t < 12 THEN 5000 + 100 * (t % 2)
                               ELSE 5000 + 50 * (t - 11)

VolumeAt(kind, t) ==
    CASE kind = "zigzag"    -> 1000 + 100 * (t % 3)
      [] kind = "rally_mid" -> 1000
      [] kind = "linear"    -> 1000
      [] OTHER              -> 0

MkTable(kind, len) ==
    [index      |-> [i \in 1..len |-> BDay(i - 1)],
     close      |-> [i \in 1..len |-> CloseAt(kind, i - 1)],
     has_volume |-> kind # "rally_end",
     volume     |-> [i \in 1..len |-> VolumeAt(kind, i - 1)]]

Lens == (MinLen..MaxLen) \cup {LongLen}

Tables ==
    {MkTable(kind, len) : kind \in Kinds, len \in Lens}
      \cup {MkTable(kind, ScenarioLen) : kind \in {"flat", "linear", "zigzag"}}

ModelNames == {"Random Forest", "Gradient Boosting", "Linear Regression", "XGBoost"}

(***************************************************************************)
(* _build_features                                                         *)
(***************************************************************************)
feature_names ==
    << "lag_1", "lag_2", "lag_3", "lag_5", "lag_10",
       "roll_mean_5", "roll_mean_10", "roll_mean_20", "roll_std_5", "roll_std_20",
       "momentum_5", "momentum_10", "momentum_20",
       "volume_ma5", "volume_ratio", "rsi", "macd_hist", "macd_line",
       "bb_position", "day_of_week", "month" >>

FeatureSet == {feature_names[k] : k \in 1..Len(feature_names)}

\* volume = df["Volume"] if the column exists else a series of zeros
VolumeOf(df) == IF df.has_volume THEN df.volume ELSE [i \in 1..Len(df.close) |-> 0]

\* the ratio without the 1e-9 guard: 0 / 0 is NaN
VolumeRatioAt_unguarded(volume, j) ==
    IF j < 20 THEN NaN
    ELSE LET total == SumRange(volume, j - 19, j)
         IN  IF total = 0 THEN NaN ELSE Num((Scale * 20 * volume[j]) \div total)

\* (volume / (volume.rolling(20).mean() + 1e-9)) at j.  The mean is the
\* window's total / 20, so the quotient is 20 * volume / total; the 1e-9
\* moves it by less than 1/Scale, except that a zero volume gives 0 also
\* when the whole window is zero (0 / 1e-9)
VolumeRatioAt(volume, j) ==
    IF j < 20 THEN NaN
    ELSE LET total == SumRange(volume, j - 19, j)
         IN  IF volume[j] = 0 THEN Num(0) ELSE Num((Scale * 20 * volume[j]) \div total)

\* the power of ten by which a deviation is magnified before its root is
\* taken, as large as the integers allow; ss is 20 * the sum of squared
\* deviations of a window
StdDigits(ss) ==
    IF ss <= 2147 THEN 1000
    ELSE IF ss <= 214748 THEN 100
    ELSE IF ss <= 21474836 THEN 10
    ELSE 1

\* one more decimal digit of a square root: r is the floor of the root of
\* n / c and rem is n - c * r * r; the result is the same pair for 100 * n
RootDigit(r, rem, c) ==
    LET d == CHOOSE e \in 0..9 :
                 /\ c * (20 * r * e + e * e) <= 100 * rem
                 /\ e < 9 => c * (20 * r * (e + 1) + (e + 1) * (e + 1)) > 100 * rem
    IN  << 10 * r + d, 100 * rem - c * (20 * r * d + d * d) >>

\* 100 * k * bb_std of a 20-row window, k = StdDigits(ss): the root of
\* ss / (20 * 19) with two digits more than Isqrt gives
FineStd(ss) ==
    LET k  == StdDigits(ss)
        c  == 20 * 19
        r0 == Isqrt((ss * k * k) \div c)
        d1 == RootDigit(r0, ss * k * k - c * r0 * r0, c)
        d2 == RootDigit(d1[1], d1[2], c)
    IN  d2[1]

\* ((close - bb_mid) / (2 * bb_std + 1e-9)) at j, from the window's total and
\* its squared deviations: close - bb_mid is (20 * close - total) / 20 and
\* bb_std is FineStd / (100 * StdDigits).  Only a constant window has a zero
\* deviation; then close = bb_mid and the quotient is 0 / 1e-9 = 0
BBPositionAt(close, j) ==
    IF j < 20 THEN NaN
    ELSE LET total == SumRange(close, j - 19, j)
             ss    == WindowSS(close, j - 19, j)
         IN  IF ss = 0 THEN Num(0)
             ELSE Num((5 * Scale * StdDigits(ss) * (20 * close[j] - total))
                        \div (2 * FineStd(ss)))

\* the value of column name at row i, before dropna; macd is compute_macd(close)
FeatureAt(df, macd, name, i) ==
    LET close  == df.close
        volume == VolumeOf(df)
    IN  CASE name = "lag_1"        -> shift(close, 1, i)
          [] name = "lag_2"        -> shift(close, 2, i)
          [] name = "lag_3"        -> shift(close, 3, i)
          [] name = "lag_5"        -> shift(close, 5, i)
          [] name = "lag_10"       -> shift(close, 10, i)
          [] name = "roll_mean_5"  -> rolling_mean(close, 5, i - 1)
          [] name = "roll_mean_10" -> rolling_mean(close, 10, i - 1)
          [] name = "roll_mean_20" -> rolling_mean(close, 20, i - 1)
          [] name = "roll_std_5"   -> rolling_std(close, 5, i - 1)
          [] name = "roll_std_20"  -> rolling_std(close, 20, i - 1)
          [] name = "momentum_5"   -> pct_over(close, 5, i - 1)
          [] name = "momentum_10"  -> pct_over(close, 10, i - 1)
          [] name = "momentum_20"  -> pct_over(close, 20, i - 1)
          [] name = "volume_ma5"   -> rolling_mean(volume, 5, i - 1)
          [] name = "volume_ratio" -> VolumeRatioAt(volume, i - 1)
          [] name = "rsi"          -> compute_rsi(close, 14, i - 1)
          [] name = "macd_hist"    -> shift(macd.histogram, 1, i)
          [] name = "macd_line"    -> shift(macd.macd, 1, i)
          [] name = "bb_position"  -> BBPositionAt(close, i - 1)
          [] name = "day_of_week"  -> Num(dayofweek(df.index[i]))
          [] name = "month"        -> Num(month(df.index[i]))

FeatureRow(df, macd, i) == [name \in FeatureSet |-> FeatureAt(df, macd, name, i)]

HasNaN(row) == \E name \in FeatureSet : IsNaN(row[name])

\* fillna(0) in place of dropna: every row kept, NaN replaced by 0
dropna_fill(feat) ==
    [k \in 1..Len(feat) |->
       [idx |-> feat[k].idx,
        x   |-> [name \in FeatureSet |->
                   IF IsNaN(feat[k].row[name]) THEN 0 ELSE Val(feat[k].row[name])]]]

\* feat.dropna(): the rows without NaN, each with its position in the table
\* (feat_df.index) and its values (feat_df.values)
dropna(feat) ==
    LET kept == SelectSeq(feat, LAMBDA r : ~HasNaN(r.row))
    IN  [k \in 1..Len(kept) |->
           [idx |-> kept[k].idx, x |-> [name \in FeatureSet |-> Val(kept[k].row[name])]]]

\* the feature table before dropna
FeatureTable(df) ==
    LET macd == compute_macd(df.close)
    IN  [i \in 1..Len(df.close) |-> [idx |-> i, row |-> FeatureRow(df, macd, i)]]

_build_features(df) == dropna(FeatureTable(df))

(***************************************************************************)
(* sklearn, as train_and_predict uses it                                   *)
(***************************************************************************)
RECURSIVE MinOver(_, _)
MinOver(s, k) == IF k = 1 THEN s[1] ELSE Min2(s[k], MinOver(s, k - 1))

RECURSIVE MaxOver(_, _)
MaxOver(s, k) == IF k = 1 THEN s[1] ELSE Max2(s[k], MaxOver(s, k - 1))

\* the integer that stands for the number 1.0 in each column
One(name) ==
    CASE name \in {"lag_1", "lag_2", "lag_3", "lag_5", "lag_10", "roll_mean_5",
                   "roll_mean_10", "roll_mean_20", "roll_std_5", "roll_std_20"} -> Dollar
      [] name \in {"momentum_5", "momentum_10", "momentum_20"} -> Fine
      [] name \in {"volume_ratio", "rsi", "bb_position"} -> Scale
      [] name \in {"macd_hist", "macd_line"} -> Dollar * Scale
      [] OTHER -> 1

\* the columns whose values are quotients or roots of integers of the table
Quotients == {"roll_mean_5", "roll_mean_10", "roll_mean_20", "roll_std_5", "roll_std_20",
              "momentum_5", "momentum_10", "momentum_20", "volume_ma5", "volume_ratio",
              "rsi"}

\* whether column name has the same value at the table rows i and j, decided
\* on the integers the values are computed from and not on their floors
SameValue(d, name, i, j) ==
    LET close  == d.close
        volume == VolumeOf(d)
    IN  CASE name = "roll_mean_5"  -> SumRange(close, i - 5, i - 1) = SumRange(close, j - 5, j - 1)
          [] name = "roll_mean_10" -> SumRange(close, i - 10, i - 1) = SumRange(close, j - 10, j - 1)
          [] name = "roll_mean_20" -> SumRange(close, i - 20, i - 1) = SumRange(close, j - 20, j - 1)
          [] name = "roll_std_5"   -> WindowSS(close, i - 5, i - 1) = WindowSS(close, j - 5, j - 1)
          [] name = "roll_std_20"  -> WindowSS(close, i - 20, i - 1) = WindowSS(close, j - 20, j - 1)
          [] name = "momentum_5"   -> close[i - 1] * close[j - 6] = close[j - 1] * close[i - 6]
          [] name = "momentum_10"  -> close[i - 1] * close[j - 11] = close[j - 1] * close[i - 11]
          [] name = "momentum_20"  -> close[i - 1] * close[j - 21] = close[j - 1] * close[i - 21]
          [] name = "volume_ma5"   -> SumRange(volume, i - 5, i - 1) = SumRange(volume, j - 5, j - 1)
          [] name = "volume_ratio" ->
                /\ volume[i - 1] = volume[j - 1]
                /\ \/ volume[i - 1] = 0
                   \/ SumRange(volume, i - 20, i - 1) = SumRange(volume, j - 20, j - 1)
          [] name = "rsi"          ->
                GainSum(close, i - 14, i - 1) * LossSum(close, j - 14, j - 1)
                  = GainSum(close, j - 14, j - 1) * LossSum(close, i - 14, i - 1)

\* whether column name is constant over the rows of the feature matrix feat
\* of table d; the rows of a feature matrix have their 20-row windows, and
\* rows without them are compared by their values
ConstantColumn(d, feat, name) ==
    \A k \in 1..Len(feat) :
        IF name \in Quotients /\ feat[1].idx > 21 /\ feat[k].idx > 21
        THEN SameValue(d, name, feat[1].idx, feat[k].idx)
        ELSE feat[k].x[name] = feat[1].x[name]

(***************************************************************************)
(* Numbers the fixed point cannot give are carried by name.  An entry is   *)
(* a known number, or the name of a number: a scaled value in a column     *)
(* whose range is under the resolution, a predicted price, or an operation *)
(* of the rollout on entries that are not all known.                       *)
(***************************************************************************)
Known(v) == [op |-> "num", v |-> v, of |-> << >>]
IsKnown(e) == e.op = "num"
Lift(s) == [i \in 1..Len(s) |-> Known(s[i])]

\* the scaled value of row k of the feature matrix, somewhere in 0..1
Below(k) == [op |-> "below", v |-> k, of |-> << >>]

\* the price that inverse_transform makes of the regressor's answer number id
Pred(id) == [op |-> "pred", v |-> id, of |-> << >>]

\* every close is a multiple of a quarter: a binary fraction, that sums
\* without rounding
Dyadic(close) == \A i \in 1..Len(close) : close[i] % 25 = 0

\* The columns computed by rolling or exponential accumulation.  Where such a
\* column is constant, its floats can differ in their last bits, by more
\* than the 10 * eps under which MinMaxScaler takes a column for constant.
\* Sums of binary fractions are exact: the rolling means and the RSI of a
\* dyadic table do not differ.
Rolled == {"roll_mean_5", "roll_mean_10", "roll_mean_20", "roll_std_5", "roll_std_20",
           "rsi", "macd_hist", "macd_line", "bb_position"}

CanRound(d, feat) ==
    {name \in Rolled :
        /\ Len(feat) > 1
        /\ ConstantColumn(d, feat, name)
        /\ \A k \in 1..Len(feat) : feat[k].x[name] = feat[1].x[name]
        /\ ~(Dyadic(d.close)
               /\ name \in {"roll_mean_5", "roll_mean_10", "roll_mean_20", "rsi"})}

\* data_range_ of column name as MinMaxScaler sees it: "spread" when the
\* values differ at the resolution, "one" when the floats are equal (or
\* closer than 10 * eps), "below" when they differ by less than the
\* resolution: a column that is not constant, or one of the columns in
\* rounded, whose floats differ in their last bits
ColumnRange(d, feat, name, rounded) ==
    LET column == [k \in 1..Len(feat) |-> feat[k].x[name]]
    IN  IF MaxOver(column, Len(column)) > MinOver(column, Len(column)) THEN "spread"
        ELSE IF ConstantColumn(d, feat, name) /\ name \notin rounded THEN "one"
        ELSE "below"

\* MinMaxScaler().fit on one column: data_min_, data_max_, the kind of its
\* range, and the column's 1.0
MinMaxFit(column, range, one) ==
    [data_min |-> MinOver(column, Len(column)), data_max |-> MaxOver(column, Len(column)),
     range |-> range, one |-> one]

\* data_range_ after _handle_zeros_in_scale: 1.0 for a constant column
RangeOf(sc) == IF sc.range = "one" THEN sc.one ELSE sc.data_max - sc.data_min

\* MinMaxScaler.transform of one value, for a range at the resolution
transform(sc, v) == (Scale * (v - sc.data_min)) \div RangeOf(sc)

\* MinMaxScaler.inverse_transform of one scaled value
inverse_transform(sc, p) == sc.data_min + (p * RangeOf(sc)) \div Scale

\* fit_transform's output for row k of the matrix
Scaled(sc, v, k) == IF sc.range = "below" THEN Below(k) ELSE Known(transform(sc, v))

\* transform's output for an entry of a rollout row
ScaledEntry(sc, e) ==
    IF IsKnown(e) /\ sc.range # "below" THEN Known(transform(sc, e.v))
    ELSE [op |-> "scaled", v |-> 0, of |-> << e >>]

n_splits == 5

\* TimeSeriesSplit(n_splits).split over n rows: fold k (1..n_splits) trains on
\* the rows before its test block and tests on the block; rows are 1..n
test_size(n) == n \div (n_splits + 1)
test_start(n, k) == n - (n_splits - k + 1) * test_size(n)
\* a training set that takes the first validation row too
train_idx_overlap(n, k) == 1..(n - (n_splits - k + 1) * (n \div (n_splits + 1)) + 1)

train_idx(n, k) == 1..test_start(n, k)
val_idx(n, k) == (test_start(n, k) + 1)..(test_start(n, k) + test_size(n))

\* a selection without the else branch's fallback: only the exact name
\* "Random Forest" gives the forest, any other string the first branch
PickedModel_nofallback(name) ==
    IF name = "Gradient Boosting" THEN "GradientBoostingRegressor"
    ELSE IF name = "Random Forest" THEN "RandomForestRegressor"
    ELSE "Ridge"

\* the regressor chosen by the model_name argument
PickedModel(name) ==
    IF name = "Linear Regression" THEN "Ridge"
    ELSE IF name = "Gradient Boosting" THEN "GradientBoostingRegressor"
    ELSE "RandomForestRegressor"

\* RandomForestRegressor(..., n_jobs=-1), model.py 145-148: predict runs the
\* trees in worker threads, and each adds its output to the shared sum when
\* it is done.  Floating-point addition is not associative: the last bits of
\* the sum depend on the order in which the threads finish, which nothing
\* fixes and which every predict call decides anew.  A call adds the outputs
\* as the first call on the same fitted forest did (SameSum), or in an order
\* of its own, named by the invocation and the call (OwnSum); what two calls
\* in orders of their own return is never tied.  The first call on a fit has
\* nothing to differ from.  Ridge and the boosted trees predict in the
\* calling thread: their calls always agree.
Threaded(kind) == kind = "RandomForestRegressor"
SameSum == [invocation |-> 0, for |-> "first"]
OwnSum(invocation, for) == [invocation |-> invocation, for |-> for]
Sums(kind, seen, own) ==
    IF Threaded(kind) /\ seen THEN {SameSum, own} ELSE {SameSum}

\* What a fitted regressor returns is not modelled: a prediction for a row of
\* the training matrix is the term [fit, row, sum], naming the fit that
\* produced it, the row it was given and how the outputs were added; a
\* rollout prediction is named by its number in the record of answers (Pred).
Prediction(fit, row, sum) == << [fit |-> fit, row |-> row, sum |-> sum] >>

(***************************************************************************)
(* train_and_predict                                                       *)
(***************************************************************************)
Rows(m) == 1..Len(m)

Column(X, name) == [k \in Rows(X) |-> X[k][name]]

ScaleTarget(sc, y) == [k \in Rows(y) |-> transform(sc, y[k])]

ScaleRows(sc, X) ==
    [k \in Rows(X) |-> [name \in FeatureSet |-> Scaled(sc[name], X[k][name], k)]]

\* scaler_X.transform(last_row.reshape(1, -1))
TransformRow(sc, row) == [name \in FeatureSet |-> ScaledEntry(sc[name], row[name])]

SubSeq1(s, lo, hi) == [k \in 1..(hi - lo + 1) |-> s[lo + k - 1]]

\* numpy's X[idx] for an increasing index array idx
RECURSIVE TakeIdx(_, _)
TakeIdx(X, idx) ==
    IF idx = {} THEN << >>
    ELSE LET hi == CHOOSE i \in idx : \A j \in idx : j <= i
         IN  Append(TakeIdx(X, idx \ {hi}), X[hi])

\* python's s[-k]
Neg(s, k) == s[Len(s) - k + 1]

\* the window that ends one entry early: s[-(w + 1):-1]
LastN_early(s, w) ==
    IF Len(s) <= w THEN SubSeq1(s, 1, Len(s) - 1) ELSE SubSeq1(s, Len(s) - w, Len(s) - 1)

\* python's s[-w:]
LastN(s, w) == IF Len(s) <= w THEN s ELSE SubSeq1(s, Len(s) - w + 1, Len(s))

\* float(np.mean(a))
np_mean(a) == SumRange(a, 1, Len(a)) \div Len(a)

\* float(np.std(a)): the population standard deviation (ddof = 0)
np_std(a) == Isqrt(WindowSS(a, 1, Len(a)) \div (Len(a) * Len(a)))

\* the operations of the rollout on numbers
Apply(op, a) ==
    CASE op = "mean"     -> np_mean(a)
      [] op = "std"      -> np_std(a)
      [] op = "momentum" -> Momentum(a[1], a[2])

\* the same on entries: the number when every argument is known, the named
\* operation otherwise
Build(op, args) ==
    IF \A i \in 1..Len(args) : IsKnown(args[i])
    THEN Known(Apply(op, [i \in 1..Len(args) |-> args[i].v]))
    ELSE [op |-> op, v |-> 0, of |-> args]

\* a rebuild that also resets the RSI slot to the neutral 50
next_row_rsi(last_row, close_history, new_close) ==
    [name \in FeatureSet |-> IF name = "rsi" THEN Known(50 * Scale) ELSE last_row[name]]

\* the feature row for the next rollout step, from the row just used and the
\* close history that already ends with the new prediction
next_row(last_row, close_history, new_close) ==
    LET ch == close_history
        n  == Len(close_history)
    IN  [name \in FeatureSet |->
          CASE name = "lag_1"        -> Neg(ch, 2)
            [] name = "lag_2"        -> Neg(ch, 3)
            [] name = "lag_3"        -> Neg(ch, 4)
            [] name = "lag_5"        -> IF n > 5 THEN Neg(ch, 6) ELSE new_close
            [] name = "lag_10"       -> IF n > 10 THEN Neg(ch, 11) ELSE new_close
            [] name = "roll_mean_5"  -> Build("mean", LastN(ch, 5))
            [] name = "roll_mean_10" -> Build("mean", LastN(ch, 10))
            [] name = "roll_mean_20" -> Build("mean", LastN(ch, 20))
            [] name = "roll_std_5"   -> Build("std", LastN(ch, 5))
            [] name = "roll_std_20"  -> Build("std", LastN(ch, 20))
            [] name = "momentum_5"   ->
                  IF n > 5 THEN Build("momentum", << Neg(ch, 1), Neg(ch, 6) >>) ELSE Known(0)
            [] name = "momentum_10"  ->
                  IF n > 10 THEN Build("momentum", << Neg(ch, 1), Neg(ch, 11) >>) ELSE Known(0)
            [] name = "momentum_20"  ->
                  IF n > 20 THEN Build("momentum", << Neg(ch, 1), Neg(ch, 21) >>) ELSE Known(0)
            [] OTHER                 -> last_row[name]]

\* the slots next_row rewrites
Rebuilt == {"lag_1", "lag_2", "lag_3", "lag_5", "lag_10", "roll_mean_5", "roll_mean_10",
            "roll_mean_20", "roll_std_5", "roll_std_20", "momentum_5", "momentum_10",
            "momentum_20"}

VARIABLES
    df, model_name, pred_days,  \* the arguments of train_and_predict
    pc,                         \* where the call stands
    feat_df,                    \* _build_features's rows: [idx, x]
    scaler_X, scaler_y,         \* the fitted scalers
    X_scaled, y_scaled,
    model,                      \* [kind, X, y]: the regressor and what it was last fit on
    calls,                      \* the model's fit/predict calls, in order
    cv,                         \* one record per finished fold
    cv_errors,                  \* the errors of the folds: how many, and how they were rounded
    hist_pred, metrics,
    last_row, close_history, rows_fed, future_prices,
    future_dates,
    result,                     \* the ModelResult returned, or the error raised
    oracle,                     \* what scalers and fitted regressors have given so far
    earlier,                    \* the invocations that ended before this one
    fetch,                      \* fetch_ohlcv: attempts made, downloads seen, sleeps, return value
    app                         \* the app script: where it stands, primary_df, signals, message

vars == << df, model_name, pred_days, pc, feat_df, scaler_X, scaler_y, X_scaled,
           y_scaled, model, calls, cv, cv_errors, hist_pred, metrics, last_row, close_history,
           rows_fed, future_prices, future_dates, result, oracle, earlier,
           fetch, app >>

None == [none |-> TRUE]

\* nothing fitted yet: no scaler was fit on a table, no regressor asked, no
\* forest has summed its trees
NoAnswers == [scalers |-> << >>, regressors |-> << >>, summed |-> {}]

\* cv_errors = []: no fold has an error yet.  The errors are carried by
\* their number and by how their predictions were summed: all as the first
\* call on each fold's fit did, or some in an order of this loop's own.
NoErrors == [folds |-> 0, sum |-> SameSum]

\* fetch_ohlcv(ticker, period) entered: no attempt made yet
FetchCall(ticker) ==
    [ticker |-> ticker, attempt |-> 0, log |-> << >>, slept |-> << >>, errors |-> << >>,
     ret |-> None]

\* no call of fetch_ohlcv in progress
FetchIdle == FetchCall("")

\* fetch_info entered: no attempt made yet
InfoIdle == [attempt |-> 0, slept |-> << >>, warnings |-> << >>]

\* the app script at the start of a run, with nothing cached
AppIdle ==
    [pc |-> "load", primary_ticker |-> "", selected_tickers |-> << >>, todo |-> << >>,
     primary_df |-> None, info |-> None, news |-> None, info_call |-> InfoIdle,
     signals |-> None, message |-> None, cache |-> {}, info_cache |-> {},
     news_cache |-> {}, all_data |-> << >>]

\* feat_df.values and close.loc[feat_df.index].values
XOf(feat) == [k \in Rows(feat) |-> feat[k].x]
YOf(close, feat) == [k \in Rows(feat) |-> close[feat[k].idx]]

X_full == XOf(feat_df)
y_full == YOf(df.close, feat_df)

\* app.py 74-75
model_type == "Random Forest"
app_pred_days == 30

\* the calls the application can make
Inputs ==
    {<< MkTable(kind, len), name, days >> :
        kind \in Kinds, len \in Lens, name \in ModelNames, days \in 1..MaxPredDays}
      \cup {<< MkTable(kind, ScenarioLen), "Random Forest", ScenarioDays >> :
              kind \in {"flat", "linear"}}
      \cup {<< MkTable("zigzag", len), "Linear Regression", app_pred_days >> :
              len \in {MinLen + 8, LongLen}}

Init ==
    /\ \E in \in Inputs :
          /\ df = in[1]
          /\ model_name = in[2]
          /\ pred_days = in[3]
    /\ pc = "start"
    /\ feat_df = << >>
    /\ scaler_X = None
    /\ scaler_y = None
    /\ X_scaled = << >>
    /\ y_scaled = << >>
    /\ model = None
    /\ calls = << >>
    /\ cv = << >>
    /\ cv_errors = NoErrors
    /\ hist_pred = << >>
    /\ metrics = None
    /\ last_row = None
    /\ close_history = << >>
    /\ rows_fed = << >>
    /\ future_prices = << >>
    /\ future_dates = << >>
    /\ result = None
    /\ oracle = NoAnswers
    /\ earlier = << >>
    /\ fetch = FetchIdle
    /\ app = AppIdle

\* model.py 122-128
BuildFeatures ==
    /\ pc = "start"
    /\ feat_df' = _build_features(df)
    /\ pc' = "scale"
    /\ UNCHANGED << df, model_name, pred_days, oracle, earlier, fetch, app, scaler_X, scaler_y, X_scaled, y_scaled,
                    model, calls, cv, cv_errors, hist_pred, metrics, last_row, close_history,
                    rows_fed, future_prices, future_dates, result >>

\* a record of answers: a sequence of [key, out]
Has(memo, key) == \E i \in 1..Len(memo) : memo[i].key = key
Get(memo, key) == memo[CHOOSE i \in 1..Len(memo) : memo[i].key = key].out
Put(memo, key, out) ==
    IF Has(memo, key)
    THEN [i \in 1..Len(memo) |-> IF memo[i].key = key THEN [key |-> key, out |-> out] ELSE memo[i]]
    ELSE Append(memo, [key |-> key, out |-> out])
Remember(memo, key, out) ==
    IF \E i \in 1..Len(memo) : memo[i] = [key |-> key, out |-> out] THEN memo
    ELSE Append(memo, [key |-> key, out |-> out])

\* a computation without a fixed outcome: nothing ties two answers
Predicts_unseeded(memo, key, out) == TRUE

\* A deterministic computation (float arithmetic on one build, a regressor
\* built with random_state=42, Ridge): out can be its answer for key when no
\* earlier answer for the same key was different
Predicts(memo, key, out) == \A i \in 1..Len(memo) : memo[i].key = key => memo[i].out = out

\* what the two fit_transform calls produce from the feature matrix
FittedScalerX(d, feat, rounded) ==
    [name \in FeatureSet |->
       MinMaxFit(Column(XOf(feat), name), ColumnRange(d, feat, name, rounded), One(name))]
FittedScalerY(y) ==
    MinMaxFit(y, IF \A k \in 1..Len(y) : y[k] = y[1] THEN "one" ELSE "spread", Dollar)

\* model.py 131-134; MinMaxScaler refuses an empty matrix with a ValueError.
\* rounded: the constant columns whose floats differ on this table.
FitScalers ==
    /\ pc = "scale"
    /\ IF Len(feat_df) = 0
       THEN /\ pc' = "raised"
            /\ result' = [error |-> "ValueError", at |-> "scaler_X.fit_transform"]
            /\ UNCHANGED << scaler_X, scaler_y, X_scaled, y_scaled, oracle >>
       ELSE \E rounded \in SUBSET CanRound(df, feat_df) :
            /\ Predicts(oracle.scalers, df, rounded)
            /\ oracle' = [oracle EXCEPT !.scalers = Remember(@, df, rounded)]
            /\ scaler_X' = FittedScalerX(df, feat_df, rounded)
            /\ scaler_y' = FittedScalerY(y_full)
            /\ X_scaled' = ScaleRows(scaler_X', X_full)
            /\ y_scaled' = ScaleTarget(scaler_y', y_full)
            /\ pc' = "pick"
            /\ UNCHANGED result
    /\ UNCHANGED << df, model_name, pred_days, earlier, fetch, app, feat_df, model, calls, cv, cv_errors, hist_pred,
                    metrics, last_row, close_history, rows_fed, future_prices,
                    future_dates >>

\* model.py 137-148
PickModel ==
    /\ pc = "pick"
    /\ model' = [kind |-> PickedModel(model_name), fitted |-> FALSE, X |-> << >>, y |-> << >>]
    /\ pc' = "cv"
    /\ UNCHANGED << df, model_name, pred_days, oracle, earlier, fetch, app, feat_df, scaler_X, scaler_y, X_scaled,
                    y_scaled, calls, cv, cv_errors, hist_pred, metrics, last_row, close_history,
                    rows_fed, future_prices, future_dates, result >>

Fit(m, X, y) == [m EXCEPT !.fitted = TRUE, !.X = X, !.y = y]

NFits == Cardinality({k \in 1..Len(calls) : calls[k].op = "fit"})

\* X_scaled[train_idx] and y_scaled[train_idx] of fold k
FoldTrainX(Xs, k) == TakeIdx(Xs, train_idx(Len(Xs), k))
FoldTrainY(ys, k) == TakeIdx(ys, train_idx(Len(ys), k))

\* a fitted regressor with the scalers of its data
fit_key(m, sx, sy) ==
    [kind |-> m.kind, X |-> m.X, y |-> m.y, scaler_X |-> sx, scaler_y |-> sy]

\* the record after a predict call on the rows of the training matrix: a
\* forest that has summed its trees once can sum them otherwise from then on
Summed(o, fit) ==
    IF Threaded(fit.kind) THEN [o EXCEPT !.summed = @ \cup {fit}] ELSE o

\* model.py 151-159: one iteration of the loop over tscv.split(X_scaled);
\* split raises a ValueError when there are fewer rows than n_splits + 1.
\* The fold's error is computed from the predictions of this call: it is the
\* error of an earlier invocation when the sum is.
CVFold ==
    /\ pc = "cv"
    /\ LET n      == Len(X_scaled)
           k      == Len(cv) + 1
           fitted == Fit(model, FoldTrainX(X_scaled, k), FoldTrainY(y_scaled, k))
           fit    == fit_key(fitted, scaler_X, scaler_y)
       IN  IF n < n_splits + 1
           THEN /\ pc' = "raised"
                /\ result' = [error |-> "ValueError", at |-> "tscv.split"]
                /\ UNCHANGED << model, calls, cv, cv_errors, oracle >>
           ELSE \E sum \in Sums(model.kind, fit \in oracle.summed,
                                OwnSum(Len(earlier) + 1, "cv")) :
                /\ model' = fitted
                /\ calls' = calls \o << [op |-> "fit", for |-> "cv"],
                                        [op |-> "predict", for |-> "cv"] >>
                /\ cv' = Append(cv, [train_idx |-> train_idx(n, k),
                                     val_idx   |-> val_idx(n, k)])
                /\ cv_errors' = [folds |-> k,
                                 sum   |-> IF cv_errors.sum = SameSum THEN sum
                                           ELSE cv_errors.sum]
                /\ oracle' = Summed(oracle, fit)
                /\ pc' = IF k = n_splits THEN "final" ELSE "cv"
                /\ UNCHANGED result
    /\ UNCHANGED << df, model_name, pred_days, earlier, fetch, app, feat_df, scaler_X, scaler_y, X_scaled,
                    y_scaled, hist_pred, metrics, last_row, close_history, rows_fed,
                    future_prices, future_dates >>

\* the refit on all rows left out: the model of the last fold is used as it is
FinalFit_skipped ==
    /\ pc = "final"
    /\ pc' = "insample"
    /\ UNCHANGED << df, model_name, pred_days, oracle, earlier, fetch, app, feat_df, scaler_X, scaler_y,
                    X_scaled, y_scaled, model, calls, cv, cv_errors, hist_pred, metrics, last_row,
                    close_history, rows_fed, future_prices, future_dates, result >>

\* model.py 163
FinalFit ==
    /\ pc = "final"
    /\ model' = Fit(model, X_scaled, y_scaled)
    /\ calls' = Append(calls, [op |-> "fit", for |-> "final"])
    /\ pc' = "insample"
    /\ UNCHANGED << df, model_name, pred_days, oracle, earlier, fetch, app, feat_df, scaler_X, scaler_y, X_scaled,
                    y_scaled, cv, cv_errors, hist_pred, metrics, last_row, close_history, rows_fed,
                    future_prices, future_dates, result >>

\* the in-sample predictions returned without the padding
PadHistPred_unpadded(n_close, preds) == preds

\* model.py 166-171: the predictions of all rows, left-padded with NaN
PadHistPred(n_close, preds) ==
    LET n_warmup == n_close - Len(preds)
    IN  [i \in 1..n_close |-> IF i <= n_warmup THEN NaN ELSE preds[i - n_warmup]]

InSample ==
    /\ pc = "insample"
    /\ LET fit == fit_key(model, scaler_X, scaler_y)
       IN  \E sum \in Sums(model.kind, fit \in oracle.summed,
                           OwnSum(Len(earlier) + 1, "hist")) :
              /\ hist_pred' = PadHistPred(Len(df.close),
                                          [k \in Rows(X_scaled) |-> Prediction(NFits, k, sum)])
              /\ oracle' = Summed(oracle, fit)
    /\ calls' = Append(calls, [op |-> "predict", for |-> "hist"])
    /\ pc' = "metrics"
    /\ UNCHANGED << df, model_name, pred_days, earlier, fetch, app, feat_df, scaler_X, scaler_y, X_scaled,
                    y_scaled, model, cv, cv_errors, metrics, last_row, close_history, rows_fed,
                    future_prices, future_dates, result >>

\* a split in the middle in place of the 80% mark
HoldOutSplit_half(n) == n \div 2

\* split = int(len(y_full) * 0.8)
HoldOutSplit(n) == (n * 8) \div 10

\* model.py 174-187
Metrics ==
    /\ pc = "metrics"
    /\ LET n     == Len(X_scaled)
           split == HoldOutSplit(n)
           fit   == fit_key(model, scaler_X, scaler_y)
       IN  \E sum \in Sums(model.kind, fit \in oracle.summed,
                           OwnSum(Len(earlier) + 1, "test")) :
              /\ metrics' = [rows      |-> (split + 1)..n,
                             test_pred |-> [r \in (split + 1)..n |-> Prediction(NFits, r, sum)]]
              /\ oracle' = Summed(oracle, fit)
    /\ calls' = Append(calls, [op |-> "predict", for |-> "test"])
    /\ last_row' = [name \in FeatureSet |-> Known(X_full[Len(X_full)][name])]
    /\ close_history' = Lift(df.close)
    /\ pc' = IF pred_days > 0 THEN "rollout" ELSE "dates"
    /\ UNCHANGED << df, model_name, pred_days, earlier, fetch, app, feat_df, scaler_X, scaler_y, X_scaled,
                    y_scaled, model, cv, cv_errors, hist_pred, rows_fed, future_prices,
                    future_dates, result >>

\* The steps of a rollout after which no value can have left the range of a
\* double: a step multiplies the prices by 1 / (10 * eps) < 10^15 times the
\* weights at most, and np.std squares what it is given.
FiniteSteps == 9

\* Whether the row of this step can hold a value that is not finite.  The
\* trees answer with means of training targets; Ridge extrapolates, and a
\* rebuilt column with a range under the resolution is magnified at each
\* step.
CanOverflow(m, sc, step) ==
    /\ m.kind = "Ridge"
    /\ step > FiniteSteps
    /\ \E name \in Rebuilt : sc[name].range = "below"

\* model.py 192-222: one iteration of the rollout loop.  out is the number
\* of the regressor's answer for the scaled row, a new number for a row not
\* asked about before; out = 0 stands for a row that is not finite, which
\* scaler_X.transform refuses with a ValueError.  Ridge and the boosted trees
\* repeat their answer for a row asked about before; the forest repeats one
\* of its answers or, its trees summed in another order, gives a new one.
RolloutStep ==
    /\ pc = "rollout"
    /\ LET fit        == fit_key(model, scaler_X, scaler_y)
           answers    == IF Has(oracle.regressors, fit) THEN Get(oracle.regressors, fit)
                         ELSE << >>
           row_scaled == TransformRow(scaler_X, last_row)
           step       == Len(future_prices) + 1
       IN  \E out \in 0..(Len(answers) + 1) :
              /\ ~Threaded(model.kind) => Predicts(answers, row_scaled, out)
              /\ IF Has(answers, row_scaled)
                 THEN \/ \E i \in 1..Len(answers) :
                            answers[i] = [key |-> row_scaled, out |-> out]
                      \/ out = Len(answers) + 1 /\ Threaded(model.kind)
                 ELSE out = 0 \/ out = Len(answers) + 1
              /\ out = 0 => CanOverflow(model, scaler_X, step)
              /\ oracle' = [oracle EXCEPT
                              !.regressors = Put(@, fit, Remember(answers, row_scaled, out))]
              /\ IF out = 0
                 THEN /\ pc' = "raised"
                      /\ result' = [error |-> "ValueError", at |-> "scaler_X.transform"]
                      /\ UNCHANGED << rows_fed, future_prices, close_history, last_row, calls >>
                 ELSE LET pred_price == Pred(out)
                          history    == Append(close_history, pred_price)
                      IN  /\ rows_fed' = Append(rows_fed, last_row)
                          /\ future_prices' = Append(future_prices, pred_price)
                          /\ close_history' = history
                          /\ last_row' = next_row(last_row, history, pred_price)
                          /\ calls' = Append(calls, [op |-> "predict", for |-> "rollout"])
                          /\ pc' = IF step = pred_days THEN "dates" ELSE "rollout"
                          /\ UNCHANGED result
    /\ UNCHANGED << df, model_name, pred_days, earlier, fetch, app, feat_df, scaler_X, scaler_y, X_scaled,
                    y_scaled, model, cv, cv_errors, hist_pred, metrics, future_dates >>

\* model.py 227-230
FutureDates ==
    /\ pc = "dates"
    /\ future_dates' = bdate_range(df.index[Len(df.index)] + 1, pred_days)
    /\ pc' = "return"
    /\ UNCHANGED << df, model_name, pred_days, oracle, earlier, fetch, app, feat_df, scaler_X, scaler_y, X_scaled,
                    y_scaled, model, calls, cv, cv_errors, hist_pred, metrics, last_row,
                    close_history, rows_fed, future_prices, result >>

\* importances reported for every regressor, the linear one included
FeatureImportances_always(m) == [of |-> feature_names]

\* getattr(model, "feature_importances_", None): the tree ensembles have it
FeatureImportances(m) ==
    IF m.kind \in {"RandomForestRegressor", "GradientBoostingRegressor"}
    THEN [of |-> feature_names]
    ELSE None

\* model.py 233-246
Return ==
    /\ pc = "return"
    /\ result' = [future_dates        |-> future_dates,
                  future_prices       |-> future_prices,
                  hist_pred           |-> hist_pred,
                  metrics             |-> metrics,
                  feature_names       |-> feature_names,
                  feature_importances |-> FeatureImportances(model),
                  model_name          |-> model_name,
                  cv_rmse             |-> [mean_of |-> cv, sum |-> cv_errors.sum]]
    /\ pc' = "done"
    /\ UNCHANGED << df, model_name, pred_days, oracle, earlier, fetch, app, feat_df, scaler_X, scaler_y, X_scaled,
                    y_scaled, model, calls, cv, cv_errors, hist_pred, metrics, last_row,
                    close_history, rows_fed, future_prices, future_dates >>

Next ==
    \/ BuildFeatures
    \/ FitScalers
    \/ PickModel
    \/ CVFold
    \/ FinalFit
    \/ InSample
    \/ Metrics
    \/ RolloutStep
    \/ FutureDates
    \/ Return

Spec == Init /\ [][Next]_vars

(***************************************************************************)
(* The feature engine alone: every table, _build_features applied once.    *)
(***************************************************************************)
InitFE ==
    /\ df \in Tables
    /\ model_name = "Random Forest"
    /\ pred_days = 1
    /\ pc = "start"
    /\ feat_df = << >>
    /\ scaler_X = None
    /\ scaler_y = None
    /\ X_scaled = << >>
    /\ y_scaled = << >>
    /\ model = None
    /\ calls = << >>
    /\ cv = << >>
    /\ cv_errors = NoErrors
    /\ hist_pred = << >>
    /\ metrics = None
    /\ last_row = None
    /\ close_history = << >>
    /\ rows_fed = << >>
    /\ future_prices = << >>
    /\ future_dates = << >>
    /\ result = None
    /\ oracle = NoAnswers
    /\ earlier = << >>
    /\ fetch = FetchIdle
    /\ app = AppIdle

NextFE == BuildFeatures

SpecFE == InitFE /\ [][NextFE]_vars

(***************************************************************************)
(* Several invocations in a row, as the application makes them on each     *)
(* rerun of its script.                                                    *)
(***************************************************************************)
MaxCalls == 3

CallInputs ==
    { << MkTable("zigzag", 27), "Random Forest", 1 >>,
      << MkTable("rally_mid", 34), "Gradient Boosting", 2 >>,
      << MkTable("flat", 20), "Linear Regression", 1 >> }

InitCalls ==
    /\ \E in \in CallInputs :
          /\ df = in[1]
          /\ model_name = in[2]
          /\ pred_days = in[3]
    /\ pc = "start"
    /\ feat_df = << >>
    /\ scaler_X = None
    /\ scaler_y = None
    /\ X_scaled = << >>
    /\ y_scaled = << >>
    /\ model = None
    /\ calls = << >>
    /\ cv = << >>
    /\ cv_errors = NoErrors
    /\ hist_pred = << >>
    /\ metrics = None
    /\ last_row = None
    /\ close_history = << >>
    /\ rows_fed = << >>
    /\ future_prices = << >>
    /\ future_dates = << >>
    /\ result = None
    /\ oracle = NoAnswers
    /\ earlier = << >>
    /\ fetch = FetchIdle
    /\ app = AppIdle

\* the call has ended and train_and_predict is entered again: its arguments
\* are new and every local starts afresh; what the caller keeps of the ended
\* call is its arguments, its outcome and the model it had fitted
CallAgain ==
    /\ pc \in {"done", "raised"}
    /\ Len(earlier) + 1 < MaxCalls
    /\ earlier' = Append(earlier, [df |-> df, model_name |-> model_name,
                                   pred_days |-> pred_days, result |-> result,
                                   model |-> model])
    /\ \E in \in CallInputs :
          /\ df' = in[1]
          /\ model_name' = in[2]
          /\ pred_days' = in[3]
    /\ pc' = "start"
    /\ feat_df' = << >>
    /\ scaler_X' = None
    /\ scaler_y' = None
    /\ X_scaled' = << >>
    /\ y_scaled' = << >>
    /\ model' = None
    /\ calls' = << >>
    /\ cv' = << >>
    /\ cv_errors' = NoErrors
    /\ hist_pred' = << >>
    /\ metrics' = None
    /\ last_row' = None
    /\ close_history' = << >>
    /\ rows_fed' = << >>
    /\ future_prices' = << >>
    /\ future_dates' = << >>
    /\ result' = None
    /\ UNCHANGED << oracle, fetch, app >>

NextCalls ==
    \/ BuildFeatures
    \/ FitScalers
    \/ PickModel
    \/ CVFold
    \/ FinalFit
    \/ InSample
    \/ Metrics
    \/ RolloutStep
    \/ FutureDates
    \/ Return
    \/ CallAgain

SpecCalls == InitCalls /\ [][NextCalls]_vars

(***************************************************************************)
(* utils/data.py: fetch_ohlcv, and app.py: the script from its data        *)
(* loading to the forecast tab.                                            *)
(***************************************************************************)
\* for attempt in range(3)
max_attempts == 3

\* if df.empty or len(df) < 50
min_bars == 50

\* pd.DataFrame()
EmptyFrame == [index |-> << >>, close |-> << >>, has_volume |-> FALSE, volume |-> << >>]

\* What yf.download can do: raise, return None, or return a frame, some of
\* whose rows (missing) hold a NaN.
Downloads ==
    { [kind |-> "raise"], [kind |-> "none"],
      [kind |-> "frame", table |-> EmptyFrame, missing |-> {}],
      [kind |-> "frame", table |-> MkTable("zigzag", 30), missing |-> 1..30],
      [kind |-> "frame", table |-> MkTable("zigzag", min_bars - 1), missing |-> {}],
      [kind |-> "frame", table |-> MkTable("zigzag", min_bars + 1), missing |-> {1}],
      [kind |-> "frame", table |-> MkTable("flat", min_bars), missing |-> {}] }

\* df.dropna(inplace=True): the rows without a missing value
DropMissing(d) ==
    LET rows == [i \in 1..Len(d.table.close) |-> i]
        keep == SelectSeq(rows, LAMBDA i : i \notin d.missing)
    IN  [index      |-> [k \in 1..Len(keep) |-> d.table.index[keep[k]]],
         close      |-> [k \in 1..Len(keep) |-> d.table.close[keep[k]]],
         has_volume |-> d.table.has_volume,
         volume     |-> [k \in 1..Len(keep) |-> d.table.volume[keep[k]]]]

\* df is None or df.empty
NoData(d) == d.kind = "none" \/ (d.kind = "frame" /\ Len(d.table.close) = 0)

\* a wait that grows by one second per attempt
backoff_linear(attempt) == attempt + 1

\* time.sleep(2 ** attempt)
backoff(attempt) == 2 ^ attempt

\* one iteration of the loop of fetch_ohlcv, attempt = f.attempt, when
\* yf.download does d
FetchAttempt(f, d) ==
    LET tried == [f EXCEPT !.attempt = @ + 1, !.log = Append(@, d)]
        wait  == [attempt |-> f.attempt, seconds |-> backoff(f.attempt)]
    IN  IF d.kind = "raise"
        THEN [tried EXCEPT !.errors = Append(@, f.attempt + 1), !.slept = Append(@, wait)]
        ELSE IF NoData(d)
        THEN [tried EXCEPT !.slept = Append(@, wait)]
        ELSE IF Len(DropMissing(d).close) > 0
        THEN [tried EXCEPT !.ret = DropMissing(d)]
        ELSE tried

\* data.py 46-66
Download ==
    /\ app.pc \in {"load_fetch", "tab2_fetch"}
    /\ fetch.ret = None
    /\ fetch.attempt < max_attempts
    /\ \E d \in Downloads : fetch' = FetchAttempt(fetch, d)
    /\ UNCHANGED << df, model_name, pred_days, pc, feat_df, scaler_X, scaler_y, X_scaled,
                    y_scaled, model, calls, cv, cv_errors, hist_pred, metrics, last_row, close_history,
                    rows_fed, future_prices, future_dates, result, oracle, earlier, app >>

\* data.py 67: the loop is over, return pd.DataFrame()
FetchGiveUp ==
    /\ app.pc \in {"load_fetch", "tab2_fetch"}
    /\ fetch.ret = None
    /\ fetch.attempt = max_attempts
    /\ fetch' = [fetch EXCEPT !.ret = EmptyFrame]
    /\ UNCHANGED << df, model_name, pred_days, pc, feat_df, scaler_X, scaler_y, X_scaled,
                    y_scaled, model, calls, cv, cv_errors, hist_pred, metrics, last_row, close_history,
                    rows_fed, future_prices, future_dates, result, oracle, earlier, app >>

\* compute_signals without its minimum of 50 bars
compute_signals_nomin(d) ==
    IF Len(d.close) = 0 THEN [empty |-> TRUE]
    ELSE [empty |-> FALSE, last |-> d.close[Len(d.close)]]

\* compute_signals: {} for an empty or short table; of the dict it returns
\* otherwise only the last close is kept here
compute_signals(d) ==
    IF Len(d.close) = 0 \/ Len(d.close) < min_bars THEN [empty |-> TRUE]
    ELSE [empty |-> FALSE, last |-> d.close[Len(d.close)]]

\* the sidebar: the stocks selected, in order (never none: the script stops
\* at an empty selection before anything is fetched), and the one of them
\* picked for the analysis
Selections == { << "AAPL" >>, << "MSFT", "AAPL" >> }

\* st.cache_data: what an earlier call with this ticker returned.  An entry
\* is kept for its ttl (600 seconds, 300 for the news); time is not counted,
\* an entry can have passed its ttl whenever it is looked up (Expire).
Cached(cache, ticker) == {c \in cache : c.ticker = ticker}
CachedFrame(cache, ticker) == (CHOOSE c \in Cached(cache, ticker) : TRUE).frame

\* train_and_predict is not running: none of its locals exists
TrainIdle ==
    /\ df = EmptyFrame
    /\ model_name = ""
    /\ pred_days = 0
    /\ pc = "idle"
    /\ feat_df = << >>
    /\ scaler_X = None
    /\ scaler_y = None
    /\ X_scaled = << >>
    /\ y_scaled = << >>
    /\ model = None
    /\ calls = << >>
    /\ cv = << >>
    /\ cv_errors = NoErrors
    /\ hist_pred = << >>
    /\ metrics = None
    /\ last_row = None
    /\ close_history = << >>
    /\ rows_fed = << >>
    /\ future_prices = << >>
    /\ future_dates = << >>
    /\ result = None
    /\ oracle = NoAnswers
    /\ earlier = << >>

\* the same, as the start of a new run leaves them
ResetTraining ==
    /\ df' = EmptyFrame
    /\ model_name' = ""
    /\ pred_days' = 0
    /\ pc' = "idle"
    /\ feat_df' = << >>
    /\ scaler_X' = None
    /\ scaler_y' = None
    /\ X_scaled' = << >>
    /\ y_scaled' = << >>
    /\ model' = None
    /\ calls' = << >>
    /\ cv' = << >>
    /\ cv_errors' = NoErrors
    /\ hist_pred' = << >>
    /\ metrics' = None
    /\ last_row' = None
    /\ close_history' = << >>
    /\ rows_fed' = << >>
    /\ future_prices' = << >>
    /\ future_dates' = << >>
    /\ result' = None
    /\ oracle' = NoAnswers
    /\ earlier' = << >>

train_vars == << df, model_name, pred_days, pc, feat_df, scaler_X, scaler_y, X_scaled,
                 y_scaled, model, calls, cv, cv_errors, hist_pred, metrics, last_row, close_history,
                 rows_fed, future_prices, future_dates, result, oracle, earlier >>

\* app.py 88: fetch_ohlcv(primary_ticker, period) is called; the wrapper of
\* st.cache_data answers from the cache when it holds the ticker, and runs
\* the function otherwise
LoadCall ==
    /\ app.pc = "load"
    /\ IF Cached(app.cache, app.primary_ticker) # {}
       THEN /\ app' = [app EXCEPT !.primary_df = CachedFrame(app.cache, app.primary_ticker),
                                  !.pc = "info"]
            /\ UNCHANGED fetch
       ELSE /\ app' = [app EXCEPT !.pc = "load_fetch"]
            /\ fetch' = FetchCall(app.primary_ticker)
    /\ UNCHANGED train_vars

\* app.py 88: fetch_ohlcv returns; the wrapper stores what it returns and the
\* script binds it to primary_df
LoadReturn ==
    /\ app.pc = "load_fetch"
    /\ fetch.ret # None
    /\ app' = [app EXCEPT
                 !.primary_df = fetch.ret,
                 !.cache = @ \cup {[ticker |-> fetch.ticker, frame |-> fetch.ret]},
                 !.pc = "info"]
    /\ fetch' = FetchIdle
    /\ UNCHANGED train_vars

\* for attempt in range(3), in fetch_info
info_attempts == 3

\* app.py 89: fetch_info(primary_ticker) answered from the cache
InfoHit ==
    /\ app.pc = "info"
    /\ Cached(app.info_cache, app.primary_ticker) # {}
    /\ app' = [app EXCEPT !.info = CachedFrame(app.info_cache, app.primary_ticker),
                          !.pc = "news"]
    /\ UNCHANGED << train_vars, fetch >>

\* data.py 73-80: one iteration of the loop of fetch_info.  _ticker(ticker).info
\* gives a dict of more than 5 entries, which is returned and cached, or a
\* shorter one, or raises, which is reported with st.warning; the loop sleeps
\* 2 ** attempt seconds after each attempt that did not return
InfoAttempt ==
    /\ app.pc = "info"
    /\ Cached(app.info_cache, app.primary_ticker) = {}
    /\ app.info_call.attempt < info_attempts
    /\ \E outcome \in {"info", "short", "raise"} :
          LET call == app.info_call
              info == [empty |-> FALSE]
          IN  app' = IF outcome = "info"
                     THEN [app EXCEPT
                             !.info = info,
                             !.info_cache = @ \cup {[ticker |-> app.primary_ticker, frame |-> info]},
                             !.info_call = InfoIdle,
                             !.pc = "news"]
                     ELSE [app EXCEPT
                             !.info_call =
                                [attempt  |-> call.attempt + 1,
                                 slept    |-> Append(call.slept, backoff(call.attempt)),
                                 warnings |-> IF outcome = "raise"
                                              THEN Append(call.warnings, call.attempt + 1)
                                              ELSE call.warnings]]
    /\ UNCHANGED << train_vars, fetch >>

\* data.py 81: the loop is over, return {}
InfoGiveUp ==
    /\ app.pc = "info"
    /\ Cached(app.info_cache, app.primary_ticker) = {}
    /\ app.info_call.attempt = info_attempts
    /\ LET info == [empty |-> TRUE]
       IN  app' = [app EXCEPT
                     !.info = info,
                     !.info_cache = @ \cup {[ticker |-> app.primary_ticker, frame |-> info]},
                     !.info_call = InfoIdle,
                     !.pc = "news"]
    /\ UNCHANGED << train_vars, fetch >>

\* app.py 90, data.py 85-120: fetch_news(primary_ticker), from the cache or
\* by one request.  It returns a list of 6 headlines at most, [] when there
\* are none or the request raised; of the list only its being there is kept
FetchNews ==
    /\ app.pc = "news"
    /\ LET news == [items |-> "at most 6"]
       IN  app' = IF Cached(app.news_cache, app.primary_ticker) # {}
                  THEN [app EXCEPT
                          !.news = CachedFrame(app.news_cache, app.primary_ticker),
                          !.pc = "gate"]
                  ELSE [app EXCEPT
                          !.news = news,
                          !.news_cache = @ \cup {[ticker |-> app.primary_ticker,
                                                  frame  |-> news]},
                          !.pc = "gate"]
    /\ UNCHANGED << train_vars, fetch >>

\* app.py 92-94
LoadGate ==
    /\ app.pc = "gate"
    /\ app' = IF Len(app.primary_df.close) = 0
              THEN [app EXCEPT !.pc = "stopped", !.message = "Unable to fetch data."]
              ELSE [app EXCEPT !.pc = "signals"]
    /\ UNCHANGED << train_vars, fetch >>

\* app.py 96-100; past the gate the script goes on to the tabs
SignalsGate ==
    /\ app.pc = "signals"
    /\ LET signals == compute_signals(app.primary_df)
       IN  app' = IF signals.empty
                  THEN [app EXCEPT !.signals = signals, !.pc = "stopped",
                                   !.message = "Insufficient historical data to compute signals."]
                  ELSE [app EXCEPT !.signals = signals, !.pc = "tab2",
                                   !.todo = app.selected_tickers]
    /\ UNCHANGED << df, model_name, pred_days, pc, feat_df, scaler_X, scaler_y, X_scaled,
                    y_scaled, model, calls, cv, cv_errors, hist_pred, metrics, last_row, close_history,
                    rows_fed, future_prices, future_dates, result, oracle, earlier, fetch >>

\* result[t] = df["Close"] if not df.empty
Collected(all_data, ticker, frame) ==
    IF Len(frame.close) = 0 THEN all_data
    ELSE Append(all_data, [ticker |-> ticker, close |-> frame.close])

\* app.py 196, data.py 129-130: fetch_multiple_close takes the next selected
\* ticker and calls fetch_ohlcv; a ticker fetched before is answered from the
\* cache without a download
Tab2Call ==
    /\ app.pc = "tab2"
    /\ app.todo # << >>
    /\ LET t == Head(app.todo)
       IN  IF Cached(app.cache, t) # {}
           THEN /\ app' = [app EXCEPT
                             !.all_data = Collected(@, t, CachedFrame(app.cache, t)),
                             !.todo = Tail(@)]
                /\ UNCHANGED fetch
           ELSE /\ app' = [app EXCEPT !.pc = "tab2_fetch"]
                /\ fetch' = FetchCall(t)
    /\ UNCHANGED << df, model_name, pred_days, pc, feat_df, scaler_X, scaler_y, X_scaled,
                    y_scaled, model, calls, cv, cv_errors, hist_pred, metrics, last_row, close_history,
                    rows_fed, future_prices, future_dates, result, oracle, earlier >>

\* data.py 130-132: fetch_ohlcv has returned to fetch_multiple_close
Tab2Collect ==
    /\ app.pc = "tab2_fetch"
    /\ fetch.ret # None
    /\ app' = [app EXCEPT
                 !.all_data = Collected(@, fetch.ticker, fetch.ret),
                 !.cache = @ \cup {[ticker |-> fetch.ticker, frame |-> fetch.ret]},
                 !.todo = Tail(@),
                 !.pc = "tab2"]
    /\ fetch' = FetchIdle
    /\ UNCHANGED << df, model_name, pred_days, pc, feat_df, scaler_X, scaler_y, X_scaled,
                    y_scaled, model, calls, cv, cv_errors, hist_pred, metrics, last_row, close_history,
                    rows_fed, future_prices, future_dates, result, oracle, earlier >>

\* app.py 198-255: every ticker is fetched, the comparison is shown
Tab2Show ==
    /\ app.pc = "tab2"
    /\ app.todo = << >>
    /\ app' = [app EXCEPT !.pc = "tab3"]
    /\ UNCHANGED << df, model_name, pred_days, pc, feat_df, scaler_X, scaler_y, X_scaled,
                    y_scaled, model, calls, cv, cv_errors, hist_pred, metrics, last_row, close_history,
                    rows_fed, future_prices, future_dates, result, oracle, earlier, fetch >>

\* app.py 277-278: train_and_predict(primary_df, model_name=model_type,
\* pred_days=pred_days)
TrainCall ==
    /\ app.pc = "tab3"
    /\ pc = "idle"
    /\ df' = app.primary_df
    /\ model_name' = model_type
    /\ pred_days' = app_pred_days
    /\ pc' = "start"
    /\ app' = [app EXCEPT !.pc = "training"]
    /\ UNCHANGED << feat_df, scaler_X, scaler_y, X_scaled, y_scaled, model, calls, cv, cv_errors,
                    hist_pred, metrics, last_row, close_history, rows_fed, future_prices,
                    future_dates, result, oracle, earlier, fetch >>

\* app.py 280-351: the result is shown; an error raised by train_and_predict
\* ends the script run instead
ShowForecast ==
    /\ app.pc = "training"
    /\ pc \in {"done", "raised"}
    /\ app' = [app EXCEPT !.pc = IF pc = "done" THEN "shown" ELSE "failed"]
    /\ UNCHANGED << df, model_name, pred_days, pc, feat_df, scaler_X, scaler_y, X_scaled,
                    y_scaled, model, calls, cv, cv_errors, hist_pred, metrics, last_row, close_history,
                    rows_fed, future_prices, future_dates, result, oracle, earlier, fetch >>

\* st.cache_data(ttl=600) on fetch_ohlcv and fetch_info, ttl=300 on fetch_news:
\* the ttl runs on the wall clock, so an entry can pass it at any moment,
\* between two runs or between two lines of one run.  Nothing shows that an
\* entry has expired but the call that looks it up, which then runs the
\* function again: the entry goes just before the call that would have read
\* it, the one of app.py 88, 89 or 90 or one of data.py 130 in tab 2.
Expire ==
    /\ \/ /\ app.pc = "load"
          /\ \E c \in Cached(app.cache, app.primary_ticker) :
                app' = [app EXCEPT !.cache = @ \ {c}]
       \/ /\ app.pc = "info"
          /\ \E c \in Cached(app.info_cache, app.primary_ticker) :
                app' = [app EXCEPT !.info_cache = @ \ {c}]
       \/ /\ app.pc = "news"
          /\ \E c \in Cached(app.news_cache, app.primary_ticker) :
                app' = [app EXCEPT !.news_cache = @ \ {c}]
       \/ /\ app.pc = "tab2"
          /\ app.todo # << >>
          /\ \E c \in Cached(app.cache, Head(app.todo)) :
                app' = [app EXCEPT !.cache = @ \ {c}]
    /\ UNCHANGED << train_vars, fetch >>

\* The run is over and a widget is changed: Streamlit runs the script again
\* from its first line, in the same process.  The sidebar is read anew; the
\* caches of st.cache_data are kept; what the ended run computed is gone.
Rerun ==
    /\ app.pc \in {"stopped", "shown", "failed"}
    /\ \E sel \in Selections :
          app' = [AppIdle EXCEPT !.selected_tickers = sel, !.primary_ticker = "AAPL",
                                 !.cache = app.cache, !.info_cache = app.info_cache,
                                 !.news_cache = app.news_cache]
    /\ fetch' = FetchIdle
    /\ ResetTraining

\* ui.py 88-90: "Refresh Data" is pressed: st.cache_data.clear() and
\* st.rerun(), a run that starts with every cache empty
Refresh ==
    /\ app.pc \in {"stopped", "shown", "failed"}
    /\ \E sel \in Selections :
          app' = [AppIdle EXCEPT !.selected_tickers = sel, !.primary_ticker = "AAPL"]
    /\ fetch' = FetchIdle
    /\ ResetTraining

\* app.py 67-87: the first run of the script in a new process; the sidebar
\* is read and nothing is cached
InitApp ==
    /\ TrainIdle
    /\ \E sel \in Selections :
          app = [AppIdle EXCEPT !.selected_tickers = sel, !.primary_ticker = "AAPL"]
    /\ fetch = FetchIdle

\* fetch_ohlcv entered, not answered from the cache
InitFetch ==
    /\ TrainIdle
    /\ app = [AppIdle EXCEPT !.selected_tickers = << "AAPL" >>, !.primary_ticker = "AAPL",
                             !.pc = "load_fetch"]
    /\ fetch = FetchCall("AAPL")

NextFetch ==
    \/ Download
    \/ FetchGiveUp

\* fetch_ohlcv alone; the loop keeps running until it returns
SpecFetch == InitFetch /\ [][NextFetch]_vars /\ WF_vars(NextFetch)

NextApp ==
    \/ LoadCall
    \/ Download
    \/ FetchGiveUp
    \/ LoadReturn
    \/ InfoHit
    \/ InfoAttempt
    \/ InfoGiveUp
    \/ FetchNews
    \/ LoadGate
    \/ SignalsGate
    \/ Tab2Call
    \/ Tab2Collect
    \/ Tab2Show
    \/ TrainCall
    \/ BuildFeatures
    \/ FitScalers
    \/ PickModel
    \/ CVFold
    \/ FinalFit
    \/ InSample
    \/ Metrics
    \/ RolloutStep
    \/ FutureDates
    \/ Return
    \/ ShowForecast
    \/ Expire
    \/ Rerun
    \/ Refresh

SpecApp == InitApp /\ [][NextApp]_vars

(***************************************************************************)
(* Properties                                                              *)
(***************************************************************************)
\* the table d with every close and volume from row t on raised
PerturbFrom(d, t) ==
    [d EXCEPT !.close  = [i \in 1..Len(d.close) |-> IF i >= t THEN d.close[i] + 150 ELSE d.close[i]],
              !.volume = [i \in 1..Len(d.close) |-> IF i >= t THEN d.volume[i] + 70 ELSE d.volume[i]]]

\* the table d with the close of row t alone lowered and its volume raised
PerturbAt(d, t) ==
    [d EXCEPT !.close  = [i \in 1..Len(d.close) |-> IF i = t THEN d.close[i] - 130 ELSE d.close[i]],
              !.volume = [i \in 1..Len(d.close) |-> IF i = t THEN d.volume[i] + 900 ELSE d.volume[i]]]

\* what _build_features emits for row t of table d: << >> when it drops the
\* row, the row's values otherwise
EmittedRow(d, t) ==
    LET row == FeatureRow(d, compute_macd(d.close), t)
    IN  IF HasNaN(row) THEN << >> ELSE << [name \in FeatureSet |-> Val(row[name])] >>

\* the same, read from the feature matrix feat
RowOf(feat, t) ==
    IF \E k \in Rows(feat) : feat[k].idx = t
    THEN << feat[CHOOSE k \in Rows(feat) : feat[k].idx = t].x >>
    ELSE << >>

KeptIdx(feat) == {feat[k].idx : k \in Rows(feat)}

\* C1: the row _build_features emits for date t, and whether it emits one, is
\* the same for every table that agrees with the given one on all dates before
\* t, whatever its closes and volumes are from t on; the two calendar fields
\* are those of date t.
C1_Causality ==
    pc = "scale" =>
        \A t \in 1..Len(df.close) :
            /\ EmittedRow(PerturbFrom(df, t), t) = RowOf(feat_df, t)
            /\ EmittedRow(PerturbAt(df, t), t) = RowOf(feat_df, t)
            /\ t \in KeptIdx(feat_df) =>
                  /\ RowOf(feat_df, t)[1]["day_of_week"] = dayofweek(df.index[t])
                  /\ RowOf(feat_df, t)[1]["month"] = month(df.index[t])

\* a row is emitted, and changing the table at its date changes the next row
C1_Witness ==
    /\ pc = "scale"
    /\ \E t \in KeptIdx(feat_df) :
          /\ t + 1 \in KeptIdx(feat_df)
          /\ EmittedRow(PerturbAt(df, t), t + 1) # RowOf(feat_df, t + 1)
          /\ EmittedRow(PerturbAt(df, t), t + 1) # << >>

Running == pc \in {"rollout", "dates", "return", "done"}
Ended == pc \in {"raised", "done"}
FitCalls == {k \in 1..Len(calls) : calls[k].op = "fit"}

\* C2: after a rollout step has appended its prediction to the close history,
\* each lag_j of the next row (j = 1, 2, 3, 5, 10) is the j-th most recent
\* entry of that history, so lag_1 is the price just predicted.
C2_LagsFollowHistory ==
    (Running /\ Len(future_prices) >= 1) =>
        /\ \A j \in {1, 2, 3, 5, 10} :
              last_row["lag_" \o ToString(j)] = Neg(close_history, j)
        /\ last_row["lag_1"] = future_prices[Len(future_prices)]

\* the columns the fitted scaler found with a range under the resolution
BelowNow == {name \in FeatureSet : scaler_X[name].range = "below"}

\* the scaled rows and targets fold k is fit on when the table is d
FoldFitData(d, k) ==
    LET feat == _build_features(d)
        X    == XOf(feat)
        y    == YOf(d.close, feat)
    IN  [X |-> FoldTrainX(ScaleRows(FittedScalerX(d, feat, BelowNow), X), k),
         y |-> FoldTrainY(ScaleTarget(FittedScalerY(y), y), k)]

\* the table row of the first validation row of fold k
FirstValRow(k) == feat_df[test_start(Len(feat_df), k) + 1].idx

\* C3: what a fold's model is fit on, scaling included, depends only on rows
\* before the fold's validation block: a table that keeps the same rows and
\* differs only from the first validation row on gives the same fit data.
C3_FoldSeesNoFuture ==
    (pc \in {"cv", "final"} /\ Len(cv) >= 1) =>
        LET k   == Len(cv)
            alt == PerturbFrom(df, FirstValRow(k))
        IN  KeptIdx(_build_features(alt)) = KeptIdx(feat_df) =>
                FoldFitData(alt, k) = [X |-> model.X, y |-> model.y]

SetMin(S) == CHOOSE i \in S : \A j \in S : i <= j
SetMax(S) == CHOOSE i \in S : \A j \in S : j <= i

\* C4: cross-validation makes exactly 5 folds over the n feature rows; each
\* fold trains on exactly the rows before its validation block, the block is
\* contiguous and not empty, and the blocks of successive folds are disjoint
\* and in time order.
C4_FoldsAreTimeOrdered ==
    /\ Len(cv) <= 5
    /\ pc \in {"final", "insample", "metrics", "rollout", "dates", "return", "done"} => Len(cv) = 5
    /\ \A k \in 1..Len(cv) :
          /\ cv[k].val_idx # {}
          /\ cv[k].val_idx \subseteq 1..Len(X_scaled)
          /\ cv[k].val_idx = SetMin(cv[k].val_idx)..SetMax(cv[k].val_idx)
          /\ cv[k].train_idx = 1..(SetMin(cv[k].val_idx) - 1)
          /\ cv[k].train_idx # {}
          /\ Len(model.X) > 0
          /\ k < Len(cv) => SetMax(cv[k].val_idx) < SetMin(cv[k + 1].val_idx)
    /\ (pc = "cv" /\ Len(cv) >= 1) => Len(model.X) = Cardinality(cv[Len(cv)].train_idx)

\* all five folds are done and the validation blocks hold several rows
C4_Witness ==
    /\ pc = "final"
    /\ Len(cv) = 5
    /\ Cardinality(cv[5].val_idx) >= 2

Weekend(d) == dayofweek(d) \in {5, 6}

\* C5: a returned result holds exactly pred_days future dates and prices; the
\* dates are business days, strictly increasing, with only weekend days
\* between the last historical date and the first and between neighbours.
C5_FutureDates ==
    pc = "done" =>
        LET fd   == result.future_dates
            last == df.index[Len(df.index)]
        IN  /\ Len(fd) = pred_days
            /\ Len(result.future_prices) = pred_days
            /\ \A s \in 1..Len(fd) : ~Weekend(fd[s])
            /\ fd[1] > last
            /\ \A z \in (last + 1)..(fd[1] - 1) : Weekend(z)
            /\ \A s \in 1..(Len(fd) - 1) :
                  /\ fd[s] < fd[s + 1]
                  /\ \A z \in (fd[s] + 1)..(fd[s + 1] - 1) : Weekend(z)

\* a result for a table ending on a Friday with several future dates
C5_Witness ==
    /\ pc = "done"
    /\ pred_days >= 2
    /\ dayofweek(df.index[Len(df.index)]) = 4
    /\ result.future_dates[1] = df.index[Len(df.index)] + 3

\* C6: the row fed to the model at each rollout step carries the day of week
\* and the month of the future date forecast at that step.
C6_CalendarAdvances ==
    pc = "done" =>
        \A s \in 1..Len(rows_fed) :
            /\ rows_fed[s]["day_of_week"] = Known(dayofweek(future_dates[s]))
            /\ rows_fed[s]["month"] = Known(month(future_dates[s]))

\* C7: for 300 rows of close = 100 + 0.5 t, Random Forest and horizon 5, the
\* call returns 5 forecasts, non-decreasing, each within 5% of 100 + 0.5 (300 + k).
C7_LinearScenario ==
    (df = MkTable("linear", 300) /\ model_name = "Random Forest" /\ pred_days = 5 /\ Ended) =>
        /\ pc = "done"
        /\ Len(result.future_prices) = 5
        /\ \A k \in 1..4 : result.future_prices[k] <= result.future_prices[k + 1]
        /\ \A k \in 1..5 :
              LET line == 10000 + 50 * (300 + k)
                  p    == result.future_prices[k]
              IN  /\ 100 * (p - line) <= 5 * line
                  /\ 100 * (line - p) <= 5 * line

\* C8: for 300 rows of close = 50 the call returns a forecast that stays at
\* 50 (to the cent) at every step.
C8_FlatScenario ==
    (df = MkTable("flat", 300) /\ Ended) =>
        /\ pc = "done"
        /\ Len(result.future_prices) = pred_days
        /\ \A k \in 1..Len(result.future_prices) :
              /\ result.future_prices[k] >= 4999
              /\ result.future_prices[k] <= 5001

\* C9: with fewer than 21 feature rows the call fits no model and returns no
\* result.
C9_InsufficientData ==
    (pc # "start" /\ Len(feat_df) < 21) =>
        /\ FitCalls = {}
        /\ pc # "done"
        /\ Ended => "error" \in DOMAIN result

\* C10: a table of exactly 20 rows ends in an error: no model is picked or
\* fitted and no result with empty arrays is returned.
C10_TwentyRows ==
    Len(df.close) = 20 =>
        /\ pc \in {"start", "scale", "raised"}
        /\ pc = "raised" => result = [error |-> "ValueError", at |-> "scaler_X.fit_transform"]
        /\ pc # "raised" => result = None
        /\ calls = << >>
        /\ future_prices = << >>

\* the 20-row call has ended, with no feature row left
C10_Witness ==
    /\ Len(df.close) = 20
    /\ pc = "raised"
    /\ feat_df = << >>

\* the rows of table d that _build_features removes
DroppedCount(d, feat) == Len(d.close) - Len(feat)

\* C11: for the tables of 250 rows or more, the feature matrix has the
\* table's length less one warm-up count that is the same whatever the
\* prices are, and no row it keeps holds an undefined value.
C11_FixedWarmup ==
    (pc = "scale" /\ Len(df.close) >= 250) =>
        /\ \A d \in Tables :
              Len(d.close) >= 250 =>
                  DroppedCount(d, _build_features(d)) = DroppedCount(df, feat_df)
        /\ LET table == FeatureTable(df)
           IN  \A k \in Rows(feat_df) : ~HasNaN(table[feat_df[k].idx].row)

\* C12: every numeric entry of the returned hist_pred stands at the table
\* position of the feature row it is the final model's prediction for, also
\* when rows were dropped elsewhere than at the start of the table.
C12_HistPredAligned ==
    pc = "done" =>
        \A i \in 1..Len(result.hist_pred) :
            ~IsNaN(result.hist_pred[i]) =>
                /\ Val(result.hist_pred[i]).fit = Cardinality(FitCalls)
                /\ feat_df[Val(result.hist_pred[i]).row].idx = i

\* the rows at the head of every table that hold an undefined value: the
\* 20-row momentum, shifted by one, is NaN on positions 0..20
warmup == 21

\* C13: the returned hist_pred is as long as the table; its first warmup
\* entries are undefined and every later entry is numeric.
C13_HistPredShape ==
    pc = "done" =>
        /\ Len(result.hist_pred) = Len(df.close)
        /\ \A i \in 1..Len(result.hist_pred) :
              IsNaN(result.hist_pred[i]) <=> i <= warmup

\* C14: the selector "Linear Regression" gives the ridge regressor,
\* "Gradient Boosting" the gradient-boosting regressor, and every other
\* selector the Random Forest regressor; no selector makes the call raise.
C14_ClosedSelection ==
    /\ pc \notin {"start", "scale", "pick", "raised"} =>
          /\ model_name = "Linear Regression" => model.kind = "Ridge"
          /\ model_name = "Gradient Boosting" => model.kind = "GradientBoostingRegressor"
          /\ model_name \notin {"Linear Regression", "Gradient Boosting"} =>
                model.kind = "RandomForestRegressor"
    /\ pc = "raised" =>
          result.at \in {"scaler_X.fit_transform", "tscv.split", "scaler_X.transform"}
    /\ (pc = "raised" /\ result.at = "tscv.split") => model.fitted = FALSE

\* a call with a selector that names no regressor has returned a result
C14_Witness ==
    /\ pc = "done"
    /\ model_name = "XGBoost"
    /\ model.kind = "RandomForestRegressor"
    /\ model.fitted

\* C15: the returned feature_importances is present exactly when the fitted
\* model is a tree ensemble (the forest, also as the fallback, or gradient
\* boosting) and None for the ridge model; when present it has one entry for
\* each name of feature_names, in the order of the matrix columns.
C15_ImportancesOptional ==
    pc = "done" =>
        /\ result.feature_importances # None <=>
              model.kind \in {"RandomForestRegressor", "GradientBoostingRegressor"}
        /\ result.feature_importances = None <=> model_name = "Linear Regression"
        /\ result.feature_importances # None =>
              /\ result.feature_importances.of = result.feature_names
              /\ Len(result.feature_importances.of) = Cardinality(DOMAIN X_full[1])
              /\ \A c \in 1..Len(result.feature_names) :
                    result.feature_names[c] \in DOMAIN X_full[1]

\* a ridge call has returned without importances
C15_Witness ==
    /\ pc = "done"
    /\ model.kind = "Ridge"
    /\ model.fitted
    /\ result.feature_importances = None
    /\ Len(result.feature_names) = 21

\* the ended invocations that had the arguments of the current one
SameCall(e) == e.df = df /\ e.model_name = model_name /\ e.pred_days = pred_days

IsError(r) == "error" \in DOMAIN r

\* the predictions p and q are made by the same fit on the same rows
SameTrees(p, q) ==
    /\ DOMAIN p = DOMAIN q
    /\ \A i \in DOMAIN p :
          /\ IsNaN(p[i]) <=> IsNaN(q[i])
          /\ ~IsNaN(p[i]) => (Val(p[i]).fit = Val(q[i]).fit /\ Val(p[i]).row = Val(q[i]).row)

C17_HoldOutRows ==
    pc \in {"rollout", "dates", "return", "done"} =>
        LET n        == Len(X_scaled)
            last_fit == SetMax(FitCalls)
        IN  /\ \A r \in 1..n : r \in metrics.rows <=> 10 * r > 8 * n
            /\ metrics.rows \subseteq 1..n
            /\ metrics.rows # {}
            /\ DOMAIN metrics.test_pred = metrics.rows
            /\ calls[last_fit].for = "final"
            /\ \A r \in metrics.rows : Val(metrics.test_pred[r]).fit = Cardinality(FitCalls)
            /\ \A r \in metrics.rows : Val(metrics.test_pred[r]).row = r
            /\ model.X = X_scaled /\ model.y = y_scaled
            /\ \A r \in metrics.rows : model.X[r] = X_scaled[r]

\* a returned call whose hold-out slice is a proper suffix of several rows
C17_Witness ==
    /\ pc = "done"
    /\ Cardinality(result.metrics.rows) >= 3
    /\ SetMin(result.metrics.rows) > 10
    /\ SetMax(result.metrics.rows) = Len(X_scaled)

\* The rollout's guards len(close_history) > 5, > 10 and len(ch) > 20 are
\* true at every step: the history starts as the whole close column, and a
\* call reaches the rollout only with 6 feature rows, the first of them at
\* position 21 at the earliest.
HistoryNeverShort ==
    (pc \in {"rollout", "dates", "return", "done"}) =>
        /\ Len(df.close) >= 27
        /\ Len(close_history) >= Len(df.close)
        /\ Len(close_history) = Len(df.close) + Len(future_prices)

\* the 20 values of s that end at row j are all zero / all equal; the 14
\* deltas of s that end at row j hold no fall
AllZero(s, j) == \A k \in (j - 19)..j : s[k] = 0
AllEqual(s, j) == \A k \in (j - 19)..j : s[k] = s[j]
NoFall(s, j) == \A k \in (j - 13)..j : s[k] >= s[k - 1]

\* C19 as stated: a zero 20-day deviation, a zero 20-day volume mean or a
\* zero average loss makes the feature of the next row undefined, and that
\* row is dropped.
C19_ZeroDenominatorNaN ==
    pc = "scale" =>
        LET table == FeatureTable(df)
        IN  \A i \in (warmup + 1)..Len(df.close) :
                /\ AllEqual(df.close, i - 1) =>
                      IsNaN(table[i].row["bb_position"]) /\ i \notin KeptIdx(feat_df)
                /\ AllZero(VolumeOf(df), i - 1) =>
                      IsNaN(table[i].row["volume_ratio"]) /\ i \notin KeptIdx(feat_df)
                /\ NoFall(df.close, i - 1) =>
                      IsNaN(table[i].row["rsi"]) /\ i \notin KeptIdx(feat_df)

\* C19, amended: a zero average loss makes the RSI of the next row undefined
\* and that row is dropped; a zero 20-day volume mean gives the volume ratio
\* 0 and a zero 20-day deviation the Bollinger position 0, and a row past the
\* warm-up whose RSI is defined is kept whatever these two are.
C19_ZeroDenominators ==
    pc = "scale" =>
        LET table == FeatureTable(df)
        IN  \A i \in (warmup + 1)..Len(df.close) :
                /\ AllEqual(df.close, i - 1) => table[i].row["bb_position"] = Num(0)
                /\ AllZero(VolumeOf(df), i - 1) => table[i].row["volume_ratio"] = Num(0)
                /\ NoFall(df.close, i - 1) =>
                      IsNaN(table[i].row["rsi"]) /\ i \notin KeptIdx(feat_df)
                /\ ~IsNaN(table[i].row["rsi"]) => i \in KeptIdx(feat_df)

\* a table without volumes: rows with a zero volume mean are kept, later
\* rows are lost to the undefined RSI
C19_Witness ==
    /\ pc = "scale"
    /\ \E i \in KeptIdx(feat_df) :
          /\ AllZero(VolumeOf(df), i - 1)
          /\ RowOf(feat_df, i)[1]["volume_ratio"] = 0
    /\ \E i \in (warmup + 1)..Len(df.close) :
          NoFall(df.close, i - 1) /\ i \notin KeptIdx(feat_df)

\* C20: row i (counted from 0) is retained exactly when i >= 21 and one of
\* the 14 deltas ending at i - 1 is negative; where none is, the RSI is
\* undefined and the row is left out, not filled in.
C20_RetainedRows ==
    pc = "scale" =>
        LET table == FeatureTable(df)
        IN  /\ \A p \in 0..(Len(df.close) - 1) :
                  (p + 1) \in KeptIdx(feat_df) <=>
                      /\ p >= 21
                      /\ \E q \in (p - 14)..(p - 1) : df.close[q + 1] < df.close[q]
            /\ \A p \in 15..(Len(df.close) - 1) :
                  (\A q \in (p - 14)..(p - 1) : df.close[q + 1] >= df.close[q]) =>
                      /\ IsNaN(table[p + 1].row["rsi"])
                      /\ (p + 1) \notin KeptIdx(feat_df)
            /\ Len(feat_df) = Cardinality(KeptIdx(feat_df))
            /\ \A k \in 1..(Len(feat_df) - 1) : feat_df[k].idx < feat_df[k + 1].idx

\* rows are retained on both sides of rows left out for their RSI
C20_Witness ==
    /\ pc = "scale"
    /\ \E p \in 21..(Len(df.close) - 1) :
          /\ (p + 1) \notin KeptIdx(feat_df)
          /\ \E a \in KeptIdx(feat_df) : a < p + 1
          /\ \E b \in KeptIdx(feat_df) : b > p + 1

\* C21: an invocation gives nothing before it ends; it ends either with an
\* error and no result, or with a ModelResult whose future_dates and
\* future_prices both have pred_days entries and whose hist_pred, hold-out
\* metrics and cross-validation error are all set.
C21_NoPartialForecast ==
    /\ ~Ended => result = None
    /\ pc = "raised" => DOMAIN result = {"error", "at"}
    /\ pc = "done" =>
          /\ Len(result.future_dates) = pred_days
          /\ Len(result.future_prices) = pred_days
          /\ result.future_prices = future_prices
          /\ Len(result.hist_pred) = Len(df.close)
          /\ \E i \in 1..Len(result.hist_pred) : ~IsNaN(result.hist_pred[i])
          /\ result.metrics # None
          /\ result.metrics.rows # {}
          /\ Len(result.cv_rmse.mean_of) = n_splits

\* a call that had fitted its scalers ended with an error and no result
C21_Witness ==
    /\ pc = "raised"
    /\ result.at = "tscv.split"
    /\ scaler_X # None
    /\ future_prices = << >>

\* C22: the row fed to the model at the first rollout step describes the
\* first future date: its lag_1 is the close of the last historical date and
\* its lags, rolling values, momenta and RSI are those as of that date.
C22_FirstRowIsNextDate ==
    Len(rows_fed) >= 1 =>
        LET close == df.close
            n     == Len(df.close)
            row   == rows_fed[1]
        IN  /\ row["lag_1"] = Known(close[n])
            /\ row["lag_2"] = Known(close[n - 1])
            /\ row["roll_mean_5"] = Known(Val(rolling_mean(close, 5, n)))
            /\ row["roll_mean_20"] = Known(Val(rolling_mean(close, 20, n)))
            /\ row["roll_std_5"] = Known(Val(rolling_std(close, 5, n)))
            /\ row["momentum_5"] = Known(Val(pct_over(close, 5, n)))
            /\ << row["rsi"].v >> = compute_rsi(close, 14, n)

\* Answers a regressor can give, scaled: a forest stays in the range of its
\* training targets, Ridge and the boosted trees can leave it.
Samples(kind) ==
    IF kind = "RandomForestRegressor" THEN {0, Scale \div 3, Scale}
    ELSE {0 - Scale, Scale \div 3, 2 * Scale}

\* the assignments of a sample to each answer of the rollout; past
\* MaxPredDays answers the samples repeat
Valuations ==
    {[id \in 1..Len(future_prices) |-> p[((id - 1) % MaxPredDays) + 1]] :
        p \in [1..MaxPredDays -> Samples(model.kind)]}

\* the number an entry stands for when the answers are val
Leaf(e, val) == IF e.op = "pred" THEN inverse_transform(scaler_y, val[e.v]) ELSE e.v
Eval(e, val) ==
    IF e.op \in {"num", "pred"} THEN Leaf(e, val)
    ELSE Apply(e.op, [i \in 1..Len(e.of) |-> Leaf(e.of[i], val)])
EvalAll(s, val) == [i \in 1..Len(s) |-> Eval(s[i], val)]

\* C24: after every rollout step the rebuilt roll_std_5 and roll_std_20 are
\* the rolling standard deviation of _build_features over the last 5 and the
\* last 20 entries of the close history.
C24_RolloutStdMatches ==
    (Running /\ Len(future_prices) >= 1) =>
        \A val \in Valuations :
            LET h == EvalAll(close_history, val)
                n == Len(close_history)
            IN  /\ Eval(last_row["roll_std_5"], val) = Val(rolling_std(h, 5, n))
                /\ Eval(last_row["roll_std_20"], val) = Val(rolling_std(h, 20, n))

\* the selector that names a regressor class, if any does
FamilyNamed(name) ==
    CASE name = "Random Forest"     -> "RandomForestRegressor"
      [] name = "Gradient Boosting" -> "GradientBoostingRegressor"
      [] name = "Linear Regression" -> "Ridge"
      [] OTHER                      -> "none"

\* C28: the model_name of the returned ModelResult names the model family
\* that was fitted and used for the forecast, whatever selector was passed.
C28_ModelNameIsFitted ==
    pc = "done" =>
        /\ model.fitted
        /\ FamilyNamed(result.model_name) = model.kind

IsFit(c, what) == c.op = "fit" /\ c.for = what

\* C23: the one model is fit 5 times in cross-validation and then once on
\* the whole scaled data; that last fit comes after every fold's fit and
\* before any in-sample, hold-out or rollout prediction, so hist_pred, the
\* metrics and the forecast come from the model fit on all rows.
C23_FinalFitFirst ==
    /\ \A k \in 1..Len(calls) :
          /\ (calls[k].op = "predict" /\ calls[k].for \in {"hist", "test", "rollout"}) =>
                \E j \in 1..(k - 1) : IsFit(calls[j], "final")
          /\ IsFit(calls[k], "final") =>
                /\ Cardinality({j \in 1..(k - 1) : IsFit(calls[j], "cv")}) = 5
                /\ \A j \in (k + 1)..Len(calls) : calls[j].op # "fit"
    /\ pc \in {"insample", "metrics", "rollout", "dates", "return", "done"} =>
          /\ Cardinality(FitCalls) = 6
          /\ model.fitted /\ model.X = X_scaled /\ model.y = y_scaled
    /\ pc \in {"metrics", "rollout", "dates", "return", "done"} =>
          \A i \in 1..Len(hist_pred) : ~IsNaN(hist_pred[i]) => Val(hist_pred[i]).fit = 6
    /\ pc \in {"rollout", "dates", "return", "done"} =>
          \A r \in metrics.rows : Val(metrics.test_pred[r]).fit = 6
    /\ \A i \in 1..Len(oracle.regressors) :
          oracle.regressors[i].key.X = X_scaled /\ oracle.regressors[i].key.y = y_scaled

\* a call has returned after 6 fits and predictions of all three kinds
C23_Witness ==
    /\ pc = "done"
    /\ Cardinality(FitCalls) = 6
    /\ \E k \in 1..Len(calls) : calls[k].for = "rollout"
    /\ \E k \in 1..Len(calls) : calls[k].for = "hist"
    /\ Len(model.X) > Len(FoldTrainX(X_scaled, 5))

\* the table whose closes are the history h followed by one more date
NextDateTable(h) ==
    [index      |-> [i \in 1..(Len(h) + 1) |-> BDay(i - 1)],
     close      |-> Append(h, h[Len(h)]),
     has_volume |-> FALSE,
     volume     |-> [i \in 1..(Len(h) + 1) |-> 0]]

\* C25: after every rollout step the rebuilt roll_mean_5/10/20 and
\* momentum_5/10/20 are what _build_features computes for the next date when
\* the close history is the close series: the mean of the last w entries and
\* h[last] / h[last - k] - 1.
C25_RolloutMeansMatch ==
    (Running /\ Len(future_prices) >= 1) =>
        \A val \in Valuations :
            LET h   == EvalAll(close_history, val)
                n   == Len(close_history)
                hyp == NextDateTable(h)
                now == [name \in FeatureSet |-> Eval(last_row[name], val)]
            IN  /\ \A name \in {"roll_mean_5", "roll_mean_10", "roll_mean_20",
                                "momentum_5", "momentum_10", "momentum_20"} :
                      Num(now[name]) = FeatureAt(hyp, << >>, name, n + 1)
                /\ now["roll_mean_5"] = SumRange(h, n - 4, n) \div 5
                /\ now["roll_mean_10"] = SumRange(h, n - 9, n) \div 10
                /\ now["roll_mean_20"] = SumRange(h, n - 19, n) \div 20
                /\ now["momentum_5"] = Momentum(h[n], h[n - 5])
                /\ now["momentum_10"] = Momentum(h[n], h[n - 10])
                /\ now["momentum_20"] = Momentum(h[n], h[n - 20])

\* two steps are done, and for some answers the second changed the 5-entry
\* mean and the momentum
C25_Witness ==
    /\ pc = "done"
    /\ Len(future_prices) >= 2
    /\ \E val \in Valuations :
          /\ Eval(last_row["roll_mean_5"], val) # Eval(rows_fed[2]["roll_mean_5"], val)
          /\ Eval(last_row["momentum_5"], val) # Eval(rows_fed[2]["momentum_5"], val)
          /\ Eval(future_prices[1], val) > MaxOver(df.close, Len(df.close))

Frozen == {"volume_ma5", "volume_ratio", "rsi", "macd_hist", "macd_line",
           "bb_position", "day_of_week", "month"}

\* C26: through the rollout the slots volume_ma5, volume_ratio, rsi,
\* macd_hist, macd_line, bb_position, day_of_week and month keep the values
\* of the last historical feature row, in every row fed and in the row
\* rebuilt; the other 13 slots are the ones rewritten.
C26_FrozenSlots ==
    Running =>
        LET hist_row == X_full[Len(X_full)]
        IN  /\ \A name \in Frozen : last_row[name] = Known(hist_row[name])
            /\ \A s \in 1..Len(rows_fed) :
                  \A name \in Frozen : rows_fed[s][name] = Known(hist_row[name])
            /\ Cardinality(FeatureSet \ Frozen) = 13
            /\ FeatureSet \ Frozen = Rebuilt
            /\ Len(rows_fed) >= 1 =>
                  rows_fed[1] = [name \in FeatureSet |-> Known(hist_row[name])]

\* three steps are done; each rewrote lags of the row
C26_Witness ==
    /\ pc = "done"
    /\ Len(rows_fed) = 3
    /\ rows_fed[2]["lag_1"] # rows_fed[1]["lag_1"]
    /\ rows_fed[3]["lag_2"] # rows_fed[2]["lag_2"]
    /\ rows_fed[3]["rsi"] = Known(X_full[Len(X_full)]["rsi"])

\* C27: a call that reaches the rollout has a table of at least 27 rows; the
\* close history is the table's closes, unchanged, followed by one entry for
\* each step done, so it always holds more than 20 entries: the guards of
\* the lag_5, lag_10 and momentum rebuilds are true at every step and every
\* history index read is in range.
C27_HistoryLongEnough ==
    Running =>
        LET n == Len(df.close)
        IN  /\ n >= 27
            /\ Len(feat_df) >= n_splits + 1
            /\ feat_df[1].idx >= 22
            /\ Len(close_history) = n + Len(future_prices)
            /\ Len(rows_fed) = Len(future_prices)
            /\ SubSeq1(close_history, 1, n) = Lift(df.close)
            /\ SubSeq1(close_history, n + 1, Len(close_history)) = future_prices
            /\ Len(close_history) > 20
            /\ Len(close_history) - 21 + 1 >= 1

\* the shortest table that trains has gone through a rollout of several steps
C27_Witness ==
    /\ pc = "done"
    /\ Len(df.close) = 27
    /\ Len(future_prices) >= 2
    /\ Len(close_history) = 27 + Len(future_prices)

\* C29: train_and_predict is entered only after fetch_ohlcv returned a
\* table that is not empty and compute_signals a dict that is not empty, so
\* with at least 50 bars; with an empty table or fewer than 50 bars the run
\* stops with an error message, no model is trained and nothing is forecast.
C29_TrainingIsGated ==
    /\ pc # "idle" =>
          /\ app.primary_df # None
          /\ Len(app.primary_df.close) >= 50
          /\ app.signals # None /\ ~app.signals.empty
          /\ app.pc \in {"training", "shown", "failed"}
          /\ df = app.primary_df
    /\ ((app.pc = "load_fetch" /\ fetch.ret # None /\ Len(fetch.ret.close) < 50)
          \/ (app.primary_df # None /\ Len(app.primary_df.close) < 50)) =>
          /\ app.pc \in {"load_fetch", "info", "news", "gate", "signals", "stopped"}
          /\ pc = "idle"
          /\ model = None /\ calls = << >> /\ result = None /\ future_prices = << >>
    /\ app.pc = "stopped" =>
          /\ Len(app.primary_df.close) < 50
          /\ app.message = IF Len(app.primary_df.close) = 0
                           THEN "Unable to fetch data."
                           ELSE "Insufficient historical data to compute signals."
    /\ app.pc \in {"tab2", "tab2_fetch", "tab3"} =>
          /\ Len(app.primary_df.close) >= 50
          /\ ~app.signals.empty
    /\ app.pc = "shown" => pc = "done"

\* the run stopped at the signals gate on a table of 49 bars
C29_Witness ==
    /\ app.pc = "stopped"
    /\ Len(app.primary_df.close) = 49
    /\ app.signals.empty
    /\ pc = "idle"

\* the first download of the log whose frame is not empty after dropna
Usable(d) == d.kind = "frame" /\ Len(d.table.close) > 0 /\ Len(DropMissing(d).close) > 0
Waited(d) == d.kind = "raise" \/ NoData(d)

FetchShape ==
    /\ fetch.attempt <= 3
    /\ Len(fetch.log) = fetch.attempt
    /\ \A k \in 1..Len(fetch.log) :
          /\ Usable(fetch.log[k]) => (k = Len(fetch.log) /\ fetch.ret = DropMissing(fetch.log[k]))
          /\ Waited(fetch.log[k]) <=>
                \E w \in 1..Len(fetch.slept) : fetch.slept[w].attempt = k - 1
    /\ \A w \in 1..Len(fetch.slept) :
          /\ fetch.slept[w].seconds = 2 ^ fetch.slept[w].attempt
          /\ fetch.slept[w].seconds \in {1, 2, 4}
          /\ w < Len(fetch.slept) => fetch.slept[w].attempt < fetch.slept[w + 1].attempt
    /\ fetch.ret # None =>
          \/ /\ Len(fetch.ret.close) > 0
             /\ Usable(fetch.log[Len(fetch.log)])
          \/ /\ fetch.ret = EmptyFrame
             /\ Len(fetch.log) = 3
             /\ \A k \in 1..3 : ~Usable(fetch.log[k])
    /\ Len(fetch.errors) = Cardinality({k \in 1..Len(fetch.log) : fetch.log[k].kind = "raise"})

\* C30: fetch_ohlcv makes at most 3 attempts and always returns: the first
\* download that is not empty after dropna, or an empty DataFrame when all
\* three attempts raised, gave nothing or were emptied by dropna; it sleeps
\* 2^attempt seconds (1, 2, 4) after each attempt that raised or gave an
\* empty download, and after no other.
C30_FetchRetries == [](FetchShape) /\ <>(fetch.ret # None)

\* the third attempt succeeded after one that raised and one that was empty
C30_Witness ==
    /\ fetch.ret # None
    /\ Len(fetch.ret.close) = 50
    /\ Len(fetch.log) = 3
    /\ fetch.log[1].kind = "raise"
    /\ fetch.log[2].kind = "none"
    /\ fetch.log[3].missing = {1}
    /\ fetch.slept = << [attempt |-> 0, seconds |-> 1], [attempt |-> 1, seconds |-> 2] >>

====
